---- MODULE Spec2Model ----
(***************************************************************************)
(* Model of the result aggregator of the NEULBO ML server                  *)
(* (app/services/postprocessor.py): run-length encoding of per-window      *)
(* sleep-stage predictions into stage intervals, per-window probability    *)
(* samples and the summary statistics derived from the intervals.          *)
(*                                                                         *)
(* Times are whole seconds (datetime differences), minutes are Python      *)
(* ints.  Confidences are Python floats: they are modelled as binary       *)
(* floating-point numbers with Precision significant bits and              *)
(* round-to-nearest-even, written as integer multiples of 1/One.           *)
(***************************************************************************)
EXTENDS Integers, Sequences, FiniteSets, TLC

\* ----------------------------------------------------------------------
\* Bounds of the model
\* ----------------------------------------------------------------------
\* longest prediction sequence over all five stages
MaxWindows == 4
\* longest prediction sequence over the two stages of LongRunStages
MaxRunWindows == 6
\* longest recording (recording_end - recording_start), in windows
MaxRecordingWindows == 6
\* significant bits of a float (53 for a Python float)
Precision == 4
MaxMisaligned == 2         \* longest label / probability list of a misaligned prediction
MaxVectorLen == 6          \* most classes in one probability vector
MaxSamples == 3            \* most readings of a stream that is validated and scored
MaxStreamLen == 8          \* most readings of a stream that is windowed
MaxWindowSeconds == 4      \* longest window, in seconds
MaxPredictWindows == 2     \* most feature vectors of one prediction
MaxAnalysisSamples == 4    \* readings of a full stream of an analysed request

\* ----------------------------------------------------------------------
\* Program constants
\* ----------------------------------------------------------------------
stage_interval_seconds == 30

class_names == <<"Wake", "N1", "N2", "N3", "REM">>

SleepStage == {class_names[j] : j \in 1..Len(class_names)}

\* ----------------------------------------------------------------------
\* Python float arithmetic (IEEE-754 round-to-nearest-even), on
\* non-negative values written as multiples of 1/One
\* ----------------------------------------------------------------------
\* the float 1.0
One == 2 ^ (Precision + 1)

RECURSIVE UlpFrom(_, _)
UlpFrom(x, u) == IF x < u * (2 ^ Precision) THEN u ELSE UlpFrom(x, 2 * u)

\* spacing of the floats in the binade of x
Ulp(x) == UlpFrom(x, 1)

\* num/den rounded to the nearest integer, ties to the even one
RoundHalfEven(num, den) ==
    LET q == num \div den
        r == num % den
    IN  IF 2 * r > den \/ (2 * r = den /\ q % 2 = 1) THEN q + 1 ELSE q

\* a + b on floats
FloatAdd(a, b) == LET u == Ulp(a + b) IN u * RoundHalfEven(a + b, u)

\* a / k on floats, k a positive int
FloatDiv(a, k) == LET u == Ulp(a \div k) IN u * RoundHalfEven(a, k * u)

\* int(x / d) for a whole number of seconds x: truncation toward zero
IntTrunc(x, d) == IF x >= 0 THEN x \div d ELSE -((-x) \div d)

\* np.max over one probability vector
RECURSIVE MaxOf(_, _)
MaxOf(probs, j) ==
    IF j = Len(probs) THEN probs[j]
    ELSE LET m == MaxOf(probs, j + 1) IN IF probs[j] >= m THEN probs[j] ELSE m

VARIABLES
    recording_start,     \* request.recording_start, seconds
    recording_end,       \* request.recording_end, seconds
    predictions,         \* ModelPrediction.predictions: stage label per window
    probabilities,       \* ModelPrediction.probabilities: class vector per window
    confidence_scores,   \* ModelPrediction.confidence_scores: float per window
    pc,                  \* "predicted" | "done" | "failed"
    response,            \* the SleepAnalysisResponse once pc = "done"
    accelerometer_data,  \* request.accelerometer_data: list of AccelerometerReading
    audio_data,          \* request.audio_data: list of AudioReading
    validation,          \* outcome of validate_sensor_data
    quality_report,      \* outcome of check_data_quality
    window_size,         \* PreprocessingParams.window_size, seconds
    overlap,             \* PreprocessingParams.overlap, in quarters
    accel_task,          \* outcome of the task running _process_accelerometer_data
    audio_task,          \* outcome of the task running _process_audio_data
    processed,           \* outcome of process_sensor_data
    is_ready,            \* ModelService._is_ready
    sleep_stage_model,   \* ModelService.sleep_stage_model: the loaded model or None
    preprocessing_params, \* ModelService.preprocessing_params
    model_metadata,      \* ModelService.model_metadata
    prediction,          \* outcome of predict_sleep_stages, when it is the last call
    model_calls,         \* calls of the model made by that predict_sleep_stages
    last_call,           \* the last call made on the model service
    request,             \* how far analyze_sleep_data has come
    steps,               \* the steps analyze_sleep_data has performed, in order
    db,                  \* the SleepAnalysis row of the request in the database
    background_tasks,    \* background_tasks: the update tasks not yet run
    lookup               \* outcome of the last get_analysis_result

\* state of the result aggregator
postVars == <<recording_start, recording_end, predictions, probabilities,
              confidence_scores, pc, response>>

\* the sensor streams of a request and what validation and scoring made of them
sensorVars == <<accelerometer_data, audio_data, validation, quality_report>>

\* state of the feature extraction
extractVars == <<window_size, overlap, accel_task, audio_task, processed>>

\* state of the model service
serviceVars == <<is_ready, sleep_stage_model, preprocessing_params, model_metadata,
                 prediction, model_calls, last_call>>

\* state of one request to analyze_sleep_data and of its database row
analysisVars == <<request, steps, db, background_tasks, lookup>>

vars == <<postVars, sensorVars, extractVars, serviceVars, analysisVars>>

\* a call that has not been made, one that returned v, and one that raised
Pending == [status |-> "pending"]

Returned(v) == [status |-> "returned", value |-> v]

Raised == [status |-> "raised"]

\* ----------------------------------------------------------------------
\* PostprocessorService._create_stage_intervals
\* ----------------------------------------------------------------------
SleepStageInterval(start, end, stage, conf) ==
    [start_time |-> start, end_time |-> end, stage |-> stage, confidence |-> conf]

\* mutants of IntervalEnd: the window after i, and the offset without
\* recording_start
IntervalEnd_OffByOne(rec_start, i) == rec_start + (i + 1) * stage_interval_seconds

IntervalEnd_NoStart(rec_start, i) == i * stage_interval_seconds

\* mutant of IntervalEnd: timedelta(minutes = ...) instead of seconds
IntervalEnd_Minutes(rec_start, i) == rec_start + i * stage_interval_seconds * 60

\* recording_start + timedelta(seconds = i * stage_interval_seconds)
IntervalEnd(rec_start, i) == rec_start + i * stage_interval_seconds

\* mutant of AvgConfidence: the sum is not divided
AvgConfidence_Sum(confidence_sum, count) == confidence_sum

\* avg_confidence = current_confidence_sum / current_count
AvgConfidence(confidence_sum, count) == FloatDiv(confidence_sum, count)

\* current_confidence_sum += confidence   (same stage continues)
AccumulateConfidence(confidence_sum, confidence) == FloatAdd(confidence_sum, confidence)

\* mutant of RestartConfidence: the running sum is carried into the new interval
RestartConfidence_NoReset(confidence_sum, confidence) == FloatAdd(confidence_sum, confidence)

\* current_confidence_sum = confidence    (a new interval starts)
RestartConfidence(confidence_sum, confidence) == confidence

\* mutant of SameStage: every window is taken for a change of stage
SameStage_Never(stage, current_stage) == FALSE

\* if stage == current_stage
SameStage(stage, current_stage) == stage = current_stage

\* the body of `for i in range(1, len(predictions.predictions))`, i is the
\* Python (0-based) index, and the handling of the last interval after it
RECURSIVE IntervalLoop(_, _, _, _, _, _, _, _, _)
IntervalLoop(rec_start, preds, confs, i, current_stage, current_start, current_confidence_sum, current_count, intervals) ==
    IF i < Len(preds)
    THEN LET stage == preds[i + 1]
             confidence == confs[i + 1]
         IN  IF SameStage(stage, current_stage)
             THEN IntervalLoop(rec_start, preds, confs, i + 1,
                               current_stage, current_start,
                               AccumulateConfidence(current_confidence_sum, confidence),
                               current_count + 1, intervals)
             ELSE LET interval_end == IntervalEnd(rec_start, i)
                      avg_confidence == AvgConfidence(current_confidence_sum, current_count)
                  IN  IntervalLoop(rec_start, preds, confs, i + 1,
                                   stage, interval_end,
                                   RestartConfidence(current_confidence_sum, confidence),
                                   1,
                                   Append(intervals,
                                          SleepStageInterval(current_start, interval_end,
                                                             current_stage, avg_confidence)))
    ELSE IF current_count > 0
         THEN Append(intervals,
                     SleepStageInterval(current_start,
                                        IntervalEnd(rec_start, Len(preds)),
                                        current_stage,
                                        AvgConfidence(current_confidence_sum, current_count)))
         ELSE intervals

CreateStageIntervals(rec_start, preds, confs) ==
    IF preds = <<>>
    THEN <<>>
    ELSE IntervalLoop(rec_start, preds, confs, 1, preds[1], rec_start, confs[1], 1, <<>>)

\* ----------------------------------------------------------------------
\* PostprocessorService._create_stage_probabilities
\* ----------------------------------------------------------------------
\* probs[j] if j < len(probs) else 0.0   (j is the 1-based class index here)
ClassProbability_ZeroBased(probs, j) == IF j < Len(probs) THEN probs[j] ELSE 0

ClassProbability(probs, j) == IF j <= Len(probs) THEN probs[j] ELSE 0

CreateStageProbabilities(rec_start, probas) ==
    [i \in 1..Len(probas) |->
        [timestamp |-> rec_start + (i - 1) * stage_interval_seconds,
         wake |-> ClassProbability(probas[i], 1),
         n1   |-> ClassProbability(probas[i], 2),
         n2   |-> ClassProbability(probas[i], 3),
         n3   |-> ClassProbability(probas[i], 4),
         rem  |-> ClassProbability(probas[i], 5)]]

\* ----------------------------------------------------------------------
\* PostprocessorService._calculate_summary_statistics
\* ----------------------------------------------------------------------
\* mutant of DurationMinutes: a started minute counts as a whole one
DurationMinutes_RoundedUp(interval) == IntTrunc(interval.end_time - interval.start_time + 59, 60)

\* int((interval.end_time - interval.start_time).total_seconds() / 60)
DurationMinutes(interval) == IntTrunc(interval.end_time - interval.start_time, 60)

\* stage_durations[interval.stage.value] += duration_minutes, over all intervals
RECURSIVE StageDuration(_, _, _)
StageDuration(stage_intervals, stage, k) ==
    IF k > Len(stage_intervals) THEN 0
    ELSE (IF stage_intervals[k].stage = stage THEN DurationMinutes(stage_intervals[k]) ELSE 0)
         + StageDuration(stage_intervals, stage, k + 1)

StageDurations(stage_intervals) ==
    [stage \in SleepStage |-> StageDuration(stage_intervals, stage, 1)]

\* int((recording_end - recording_start).total_seconds() / 60)
TotalRecordingTime(rec_start, rec_end) == IntTrunc(rec_end - rec_start, 60)

\* mutant of TotalSleepTime: the Wake minutes are not left out
TotalSleepTime_WithWake(stage_durations) ==
    stage_durations["Wake"] + stage_durations["N1"] + stage_durations["N2"]
        + stage_durations["N3"] + stage_durations["REM"]

\* sum(duration for stage, duration in stage_durations.items() if stage != "Wake")
TotalSleepTime(stage_durations) ==
    stage_durations["N1"] + stage_durations["N2"] + stage_durations["N3"]
        + stage_durations["REM"]

\* round(total_sleep_time / total_recording_time if total_recording_time > 0
\*       else 0.0, 3), in thousandths
SleepEfficiency(total_sleep_time, total_recording_time) ==
    IF total_recording_time > 0
    THEN RoundHalfEven(1000 * total_sleep_time, total_recording_time)
    ELSE 0

\* mutant of SleepOnsetLatency: measured to the end of the first non-Wake interval
RECURSIVE SleepOnsetLatency_ToEnd(_, _, _)
SleepOnsetLatency_ToEnd(stage_intervals, rec_start, k) ==
    IF k > Len(stage_intervals) THEN 0
    ELSE IF stage_intervals[k].stage # "Wake"
         THEN IntTrunc(stage_intervals[k].end_time - rec_start, 60)
         ELSE SleepOnsetLatency_ToEnd(stage_intervals, rec_start, k + 1)

\* the first loop with `break`: minutes to the start of the first non-Wake interval
RECURSIVE SleepOnsetLatency(_, _, _)
SleepOnsetLatency(stage_intervals, rec_start, k) ==
    IF k > Len(stage_intervals) THEN 0
    ELSE IF stage_intervals[k].stage # "Wake"
         THEN IntTrunc(stage_intervals[k].start_time - rec_start, 60)
         ELSE SleepOnsetLatency(stage_intervals, rec_start, k + 1)

\* mutant of WakeAfterSleepOnset: sleep_started is ignored
RECURSIVE WakeAfterSleepOnset_AllWake(_, _, _)
WakeAfterSleepOnset_AllWake(stage_intervals, sleep_started, k) ==
    IF k > Len(stage_intervals) THEN 0
    ELSE IF stage_intervals[k].stage = "Wake"
         THEN IntTrunc(stage_intervals[k].end_time - stage_intervals[k].start_time, 60)
              + WakeAfterSleepOnset_AllWake(stage_intervals, sleep_started, k + 1)
         ELSE WakeAfterSleepOnset_AllWake(stage_intervals, sleep_started, k + 1)

\* the loop gated by sleep_started
RECURSIVE WakeAfterSleepOnset(_, _, _)
WakeAfterSleepOnset(stage_intervals, sleep_started, k) ==
    IF k > Len(stage_intervals) THEN 0
    ELSE IF stage_intervals[k].stage # "Wake"
         THEN WakeAfterSleepOnset(stage_intervals, TRUE, k + 1)
         ELSE IF sleep_started /\ stage_intervals[k].stage = "Wake"
              THEN DurationMinutes(stage_intervals[k])
                   + WakeAfterSleepOnset(stage_intervals, sleep_started, k + 1)
              ELSE WakeAfterSleepOnset(stage_intervals, sleep_started, k + 1)

\* round(duration / total_recording_time * 100, 1), in tenths of a percent
StagePercentage(duration, total_recording_time) ==
    IF total_recording_time > 0
    THEN RoundHalfEven(1000 * duration, total_recording_time)
    ELSE 0

CalculateSummaryStatistics(stage_intervals, rec_start, rec_end) ==
    LET stage_durations == StageDurations(stage_intervals)
        total_recording_time == TotalRecordingTime(rec_start, rec_end)
        total_sleep_time == TotalSleepTime(stage_durations)
    IN  [total_sleep_time |-> total_sleep_time,
         sleep_efficiency |-> SleepEfficiency(total_sleep_time, total_recording_time),
         sleep_onset_latency |-> SleepOnsetLatency(stage_intervals, rec_start, 1),
         wake_after_sleep_onset |-> WakeAfterSleepOnset(stage_intervals, FALSE, 1),
         wake_time |-> stage_durations["Wake"],
         n1_time |-> stage_durations["N1"],
         n2_time |-> stage_durations["N2"],
         n3_time |-> stage_durations["N3"],
         rem_time |-> stage_durations["REM"],
         wake_percentage |-> StagePercentage(stage_durations["Wake"], total_recording_time),
         n1_percentage |-> StagePercentage(stage_durations["N1"], total_recording_time),
         n2_percentage |-> StagePercentage(stage_durations["N2"], total_recording_time),
         n3_percentage |-> StagePercentage(stage_durations["N3"], total_recording_time),
         rem_percentage |-> StagePercentage(stage_durations["REM"], total_recording_time)]

\* ----------------------------------------------------------------------
\* ModelService.predict_sleep_stages: what a ModelPrediction looks like
\* ----------------------------------------------------------------------
ClassIndex(stage) == CHOOSE j \in 1..Len(class_names) : class_names[j] = stage

\* dummy probabilities: 1.0 on the predicted class, 0.0 elsewhere
OneHot(stage) == [j \in 1..Len(class_names) |-> IF j = ClassIndex(stage) THEN One ELSE 0]

\* a class vector from predict_proba: top on the predicted class, the rest
\* of the mass split evenly over the two classes after it
ThreeClassVector(stage, top) ==
    [j \in 1..Len(class_names) |->
        IF j = ClassIndex(stage) THEN top
        ELSE IF (j - ClassIndex(stage)) % Len(class_names) \in {1, 2}
             THEN (One - top) \div 2
             ELSE 0]

\* confidence_scores = np.max(probabilities, axis=1).tolist()
ConfidenceScores(probas) == [i \in 1..Len(probas) |-> MaxOf(probas[i], 1)]

\* ----------------------------------------------------------------------
\* Inputs of the model
\* ----------------------------------------------------------------------
RecordingStarts == {0, 45}

\* top-class probabilities 0.375 and 0.75
ConfidenceValues == {3 * (One \div 8), 3 * (One \div 4)}

LongRunStages == {"Wake", "N2"}

SeqsUpTo(S, lo, hi) == UNION {[1..n -> S] : n \in lo..hi}

NoResponse ==
    [stage_intervals |-> <<>>, stage_probabilities |-> <<>>,
     summary_statistics |-> CalculateSummaryStatistics(<<>>, 0, 0)]

\* every stage sequence of up to MaxWindows windows with one-hot
\* probabilities, against every recording length of whole windows
InitAllStages ==
    /\ predictions \in SeqsUpTo(SleepStage, 0, MaxWindows)
    /\ probabilities = [i \in 1..Len(predictions) |-> OneHot(predictions[i])]
    /\ recording_start \in RecordingStarts
    /\ \E w \in 0..MaxRecordingWindows :
           recording_end = recording_start + w * stage_interval_seconds

\* longer sequences over two stages with varying confidences, the recording
\* being exactly as long as the windows
InitLongRuns ==
    /\ predictions \in SeqsUpTo(LongRunStages, 1, MaxRunWindows)
    /\ \E top \in [1..Len(predictions) -> ConfidenceValues] :
           probabilities = [i \in 1..Len(predictions) |->
                               ThreeClassVector(predictions[i], top[i])]
    /\ recording_start \in RecordingStarts
    /\ recording_end = recording_start + Len(predictions) * stage_interval_seconds

\* the float nearest to the decimal literal num/den
FloatLiteral(num, den) == FloatDiv(num * One, den)

\* 120 windows over a 60 minute recording: 20 Wake windows with confidence
\* 0.9, then 100 N2 windows with confidence 0.8
InitScenario ==
    /\ predictions = [i \in 1..120 |-> IF i <= 20 THEN "Wake" ELSE "N2"]
    /\ probabilities = [i \in 1..120 |->
                           IF i <= 20 THEN ThreeClassVector("Wake", FloatLiteral(9, 10))
                           ELSE ThreeClassVector("N2", FloatLiteral(8, 10))]
    /\ recording_start \in RecordingStarts
    /\ recording_end = recording_start + 60 * 60

\* no request is being validated, scored or preprocessed
SensorIdle ==
    /\ accelerometer_data = <<>>
    /\ audio_data = <<>>
    /\ validation = Pending
    /\ quality_report = Pending

ExtractIdle ==
    /\ window_size = 0
    /\ overlap = 0
    /\ accel_task = Pending
    /\ audio_task = Pending
    /\ processed = Pending

\* the model service has not been loaded and has not been called
NoModel == [loaded |-> FALSE]

NoCall == [op |-> "none", status |-> "none"]

ServiceIdle ==
    /\ is_ready = FALSE
    /\ sleep_stage_model = NoModel
    /\ preprocessing_params = "None"
    /\ model_metadata = [cleared |-> TRUE]
    /\ prediction = Pending
    /\ model_calls = 0
    /\ last_call = NoCall

\* no request has been received and no row has been written
NoRow == [exists |-> FALSE]

\* get_analysis_result has not been called
NoLookup == [status |-> 0]

AnalysisIdle ==
    /\ request = "idle"
    /\ steps = <<>>
    /\ db = NoRow
    /\ background_tasks = <<>>
    /\ lookup = NoLookup

\* a model whose predict and predict_proba disagree on the number of windows:
\* n labels against m probability vectors (and so m confidence scores)
InitMisaligned ==
    /\ \E n \in 0..MaxMisaligned, m \in 0..MaxMisaligned :
           /\ n # m
           /\ predictions \in [1..n -> LongRunStages]
           /\ probabilities \in [1..m -> {OneHot(s) : s \in LongRunStages}]
    /\ recording_start \in RecordingStarts
    /\ \E w \in 0..MaxMisaligned :
           recording_end = recording_start + w * stage_interval_seconds

\* a model with fewer or more than five classes: every probability vector has
\* k entries, each 0.25 or 0.5
InitVectorLens ==
    /\ predictions \in SeqsUpTo(LongRunStages, 1, 2)
    /\ \E k \in 1..MaxVectorLen :
           \E v \in [1..k -> {One \div 4, One \div 2}] :
               probabilities = [i \in 1..Len(predictions) |-> v]
    /\ recording_start \in RecordingStarts
    /\ recording_end = recording_start + Len(predictions) * stage_interval_seconds

Init ==
    /\ \/ InitAllStages
       \/ InitLongRuns
       \/ InitScenario
       \/ InitMisaligned
       \/ InitVectorLens
    /\ confidence_scores = ConfidenceScores(probabilities)
    /\ pc = "predicted"
    /\ response = NoResponse
    /\ SensorIdle
    /\ ExtractIdle
    /\ ServiceIdle
    /\ AnalysisIdle

\* ----------------------------------------------------------------------
\* PostprocessorService.format_analysis_response
\* ----------------------------------------------------------------------
\* predictions.confidence_scores[i] for an i past the end of the list
RaisesIndexError(preds, confs) == preds # <<>> /\ Len(confs) < Len(preds)

\* format_analysis_response as one call: the response, or the exception
format_analysis_response(rec_start, rec_end, preds, probas, confs) ==
    IF RaisesIndexError(preds, confs) THEN Raised
    ELSE LET stage_intervals == CreateStageIntervals(rec_start, preds, confs)
             stage_probabilities == CreateStageProbabilities(rec_start, probas)
             summary_statistics ==
                 CalculateSummaryStatistics(stage_intervals, rec_start, rec_end)
         IN  Returned([stage_intervals |-> stage_intervals,
                       stage_probabilities |-> stage_probabilities,
                       summary_statistics |-> summary_statistics])

FormatAnalysisResponse ==
    /\ pc = "predicted"
    /\ ~RaisesIndexError(predictions, confidence_scores)
    /\ response' = format_analysis_response(recording_start, recording_end, predictions,
                                            probabilities, confidence_scores).value
    /\ pc' = "done"
    /\ UNCHANGED <<recording_start, recording_end, predictions, probabilities,
                   confidence_scores>>
    /\ UNCHANGED <<sensorVars, extractVars, serviceVars, analysisVars>>

\* except Exception: logger.error(...); raise
FormatAnalysisResponseFails ==
    /\ pc = "predicted"
    /\ RaisesIndexError(predictions, confidence_scores)
    /\ pc' = "failed"
    /\ UNCHANGED <<recording_start, recording_end, predictions, probabilities,
                   confidence_scores, response>>
    /\ UNCHANGED <<sensorVars, extractVars, serviceVars, analysisVars>>

Next == FormatAnalysisResponse \/ FormatAnalysisResponseFails

Spec == Init /\ [][Next]_vars

\* ----------------------------------------------------------------------
\* Sensor readings.  Timestamps are whole seconds, accelerations are
\* tenths of g, audio amplitudes and frequency bands are thousandths.
\* ----------------------------------------------------------------------
AccelerometerReading(t, x, y, z) == [timestamp |-> t, x |-> x, y |-> y, z |-> z]

AudioReading(t, a, bands) == [timestamp |-> t, amplitude |-> a, frequency_bands |-> bands]

Abs(v) == IF v < 0 THEN -v ELSE v

Max2(a, b) == IF a >= b THEN a ELSE b

Min2(a, b) == IF a <= b THEN a ELSE b

RECURSIVE SumSeq(_)
SumSeq(s) == IF s = <<>> THEN 0 ELSE Head(s) + SumSeq(Tail(s))

RECURSIVE MaxSeq(_)
MaxSeq(s) == IF Len(s) = 1 THEN s[1] ELSE Max2(Head(s), MaxSeq(Tail(s)))

RECURSIVE MinSeq(_)
MinSeq(s) == IF Len(s) = 1 THEN s[1] ELSE Min2(Head(s), MinSeq(Tail(s)))

\* number of entries of s that satisfy Test
CountIf(s, Test(_)) == Cardinality({i \in DOMAIN s : Test(s[i])})

\* list.sort() / np.sort
RECURSIVE InsertSorted(_, _)
InsertSorted(v, s) ==
    IF s = <<>> THEN <<v>>
    ELSE IF v <= Head(s) THEN <<v>> \o s
    ELSE <<Head(s)>> \o InsertSorted(v, Tail(s))

RECURSIVE SortAsc(_)
SortAsc(s) == IF s = <<>> THEN <<>> ELSE InsertSorted(Head(s), SortAsc(Tail(s)))

\* [(t[i] - t[i-1]).total_seconds() for i in range(1, len(t))]
TimeIntervals(times) == [i \in 1..(Len(times) - 1) |-> times[i + 1] - times[i]]

Timestamps(data) == [i \in DOMAIN data |-> data[i].timestamp]

Amplitudes(audio) == [i \in DOMAIN audio |-> audio[i].amplitude]

\* accel_values.extend([reading.x, reading.y, reading.z]) over all readings
RECURSIVE AccelValues(_)
AccelValues(accel) ==
    IF accel = <<>> THEN <<>>
    ELSE <<Head(accel).x, Head(accel).y, Head(accel).z>> \o AccelValues(Tail(accel))

\* ----------------------------------------------------------------------
\* validation_utils: the three checks of validate_sensor_data.  An error or
\* an action is recorded by its kind, not by its message text.
\* ----------------------------------------------------------------------
min_recording_duration == 3600
max_recording_duration == 43200
LargeGapSeconds == 120
SyncToleranceSeconds == 60
AccelSaturationThreshold == 180
AccelUnrealistic == 500
AudioSaturated == 990
AudioSilent == 10
BandMax == 1000
AccelNoiseLimit == 50
AudioNoiseLimit == 300
NoiseCheckSamples == 10
NoiseCheckWindow == 100
RangeCheckReadings == 10

\* one error per interval of more than two minutes
GapErrors(intervals, kind) ==
    [i \in 1..CountIf(intervals, LAMBDA d : d > LargeGapSeconds) |-> kind]

ValidateTimeConsistency(accel, audio) ==
    LET accel_times == SortAsc(Timestamps(accel))
        audio_times == SortAsc(Timestamps(audio))
        accel_iv == TimeIntervals(accel_times)
        audio_iv == TimeIntervals(audio_times)
        has_gaps == \/ \E i \in DOMAIN accel_iv : accel_iv[i] > LargeGapSeconds
                    \/ \E i \in DOMAIN audio_iv : audio_iv[i] > LargeGapSeconds
        irregular_sampling ==
            \E i \in DOMAIN accel_iv :
                /\ ~(accel_iv[i] > LargeGapSeconds)
                /\ Abs(accel_iv[i] - stage_interval_seconds) > stage_interval_seconds
        total_duration == accel_times[Len(accel_times)] - accel_times[1]
        too_short == total_duration < min_recording_duration
        too_long == total_duration > max_recording_duration
        out_of_sync == Abs(accel_times[1] - audio_times[1]) > SyncToleranceSeconds
    IN  [errors |-> GapErrors(accel_iv, "accel_gap") \o GapErrors(audio_iv, "audio_gap")
                    \o (IF too_short THEN <<"too_short">> ELSE <<>>)
                    \o (IF too_long THEN <<"too_long">> ELSE <<>>)
                    \o (IF out_of_sync THEN <<"out_of_sync">> ELSE <<>>),
         actions |-> (IF too_short THEN <<"record_longer">> ELSE <<>>)
                     \o (IF too_long THEN <<"record_shorter">> ELSE <<>>)
                     \o (IF out_of_sync THEN <<"check_sync">> ELSE <<>>)
                     \o (IF has_gaps THEN <<"check_connection">> ELSE <<>>)
                     \o (IF irregular_sampling THEN <<"keep_rate">> ELSE <<>>),
         has_gaps |-> has_gaps,
         irregular_sampling |-> irregular_sampling]

\* any(band < 0 or band > 1 for band in reading.frequency_bands)
BandOutOfRange(reading) ==
    \E j \in DOMAIN reading.frequency_bands :
        reading.frequency_bands[j] < 0 \/ reading.frequency_bands[j] > BandMax

ValidateSensorRanges(accel, audio) ==
    LET accel_values == AccelValues(accel)
        saturated_count ==
            CountIf(accel_values, LAMBDA v : Abs(v) > AccelSaturationThreshold)
        \* saturation_ratio > 0.05
        accel_saturated == saturated_count * 20 > Len(accel_values)
        unrealistic ==
            \E i \in DOMAIN accel_values : Abs(accel_values[i]) > AccelUnrealistic
        max_amplitude == MaxSeq(Amplitudes(audio))
        audio_saturated == max_amplitude >= AudioSaturated
        audio_silent == max_amplitude < AudioSilent
        band_error ==
            \E i \in 1..Min2(RangeCheckReadings, Len(audio)) : BandOutOfRange(audio[i])
    IN  [errors |-> (IF accel_saturated THEN <<"accel_saturation">> ELSE <<>>)
                    \o (IF unrealistic THEN <<"accel_unrealistic">> ELSE <<>>)
                    \o (IF audio_saturated THEN <<"audio_saturation">> ELSE <<>>)
                    \o (IF audio_silent THEN <<"audio_silent">> ELSE <<>>)
                    \o (IF band_error THEN <<"band_range">> ELSE <<>>),
         actions |-> (IF accel_saturated THEN <<"adjust_sensor">> ELSE <<>>)
                     \o (IF unrealistic THEN <<"check_calibration">> ELSE <<>>)
                     \o (IF audio_saturated THEN <<"adjust_microphone">> ELSE <<>>)
                     \o (IF audio_silent THEN <<"check_microphone">> ELSE <<>>),
         saturation |-> accel_saturated \/ audio_saturated]

\* abs(curr.x - prev.x) + abs(curr.y - prev.y) + abs(curr.z - prev.z)
AccelChange(prev, curr) ==
    Abs(curr.x - prev.x) + Abs(curr.y - prev.y) + Abs(curr.z - prev.z)

\* the changes between the first `upto` consecutive readings
AccelChanges(accel, upto) ==
    [i \in 1..(upto - 1) |-> AccelChange(accel[i], accel[i + 1])]

AmplitudeChanges(audio, upto) ==
    [i \in 1..(upto - 1) |-> Abs(audio[i + 1].amplitude - audio[i].amplitude)]

ValidateDataQuality(accel, audio) ==
    LET accel_changes == AccelChanges(accel, Min2(NoiseCheckWindow, Len(accel)))
        \* avg_change > 5.0
        accel_noise == /\ Len(accel) > NoiseCheckSamples
                       /\ SumSeq(accel_changes) > AccelNoiseLimit * Len(accel_changes)
        amplitude_changes == AmplitudeChanges(audio, Min2(NoiseCheckWindow, Len(audio)))
        \* avg_change > 0.3
        audio_noise == /\ Len(audio) > NoiseCheckSamples
                       /\ SumSeq(amplitude_changes) > AudioNoiseLimit * Len(amplitude_changes)
        length_mismatch == Len(accel) # Len(audio)
    IN  [errors |-> (IF accel_noise THEN <<"accel_noise">> ELSE <<>>)
                    \o (IF audio_noise THEN <<"audio_noise">> ELSE <<>>)
                    \o (IF length_mismatch THEN <<"length_mismatch">> ELSE <<>>),
         actions |-> (IF accel_noise THEN <<"stabilise_sensor">> ELSE <<>>)
                     \o (IF audio_noise THEN <<"quiet_room">> ELSE <<>>)
                     \o (IF length_mismatch THEN <<"check_sync">> ELSE <<>>),
         excessive_noise |-> accel_noise \/ audio_noise]

\* all_errors of validate_sensor_data: what the three checks found
AllErrors(accel, audio) ==
    ValidateTimeConsistency(accel, audio).errors
        \o ValidateSensorRanges(accel, audio).errors
        \o ValidateDataQuality(accel, audio).errors

AllActions(accel, audio) ==
    ValidateTimeConsistency(accel, audio).actions
        \o ValidateSensorRanges(accel, audio).actions
        \o ValidateDataQuality(accel, audio).actions

SensorDataValidation(is_valid, errors, actions) ==
    [is_valid |-> is_valid, validation_errors |-> errors,
     has_time_gaps |-> FALSE, irregular_sampling |-> FALSE,
     sensor_saturation |-> FALSE, excessive_noise |-> FALSE,
     recommended_actions |-> actions]

\* if not accelerometer_data or not audio_data
MissingStream_Both(accel, audio) == accel = <<>> /\ audio = <<>>

MissingStream(accel, audio) == accel = <<>> \/ audio = <<>>

MissingStreamErrors(accel, audio) ==
    (IF accel = <<>> THEN <<"no_accelerometer_data">> ELSE <<>>)
        \o (IF audio = <<>> THEN <<"no_audio_data">> ELSE <<>>)

\* the is_valid handed to the result after the checks have run; the
\* is_valid computed from all_errors is not used
ReturnedIsValid_FromErrors(all_errors) == Len(all_errors) = 0

ReturnedIsValid(all_errors) == TRUE

validate_sensor_data(accel, audio) ==
    IF MissingStream(accel, audio)
    THEN Returned(SensorDataValidation(FALSE, MissingStreamErrors(accel, audio),
                                       <<"check_sensor_data">>))
    ELSE LET all_errors == AllErrors(accel, audio)
             all_actions == AllActions(accel, audio)
         IN  Returned(SensorDataValidation(ReturnedIsValid(all_errors), <<>>, <<>>))

\* ----------------------------------------------------------------------
\* time_series_utils: check_data_quality.  Scores are thousandths.  A
\* function body that raises yields Raised; Except is the
\* "try: ... except Exception: return default" around it.
\* ----------------------------------------------------------------------
Except_Reraise(outcome, default) == outcome

Except(outcome, default) ==
    IF outcome.status = "raised" THEN Returned(default) ELSE outcome

\* num / den in thousandths, rounded down (den > 0)
MilliRatio(num, den) == (num \div den) * 1000 + ((num % den) * 1000) \div den

\* floor of the square root (Newton iteration)
RECURSIVE SqrtIter(_, _)
SqrtIter(n, x) ==
    LET y == (x + n \div x) \div 2 IN IF y >= x THEN x ELSE SqrtIter(n, y)

ISqrt(n) == IF n = 0 THEN 0 ELSE SqrtIter(n, n)

\* sum of the squared deviations from the mean, times n^2:
\* with m = np.mean(values), n^2 * sum((v - m)^2)
SqDev(values) ==
    LET n == Len(values)
        s == SumSeq(values)
    IN  SumSeq([i \in DOMAIN values |-> (n * values[i] - s) * (n * values[i] - s)])

\* np.var(values), rounded down
Variance(values) == SqDev(values) \div (Len(values) * Len(values) * Len(values))

\* np.std(values) in 1/scale of the unit of the values, rounded down
StdScaled(values, scale) ==
    ISqrt((SqDev(values) * scale * scale) \div (Len(values) * Len(values) * Len(values)))

\* np.exp(-k) in thousandths for k = 0..7; below one thousandth from k = 7 on
ExpTable == <<1000, 368, 135, 50, 18, 7, 2, 1>>

\* np.exp(-r) for r in thousandths: the table value at whole r, linear between
ExpNeg(r) ==
    LET k == r \div 1000
        f == r % 1000
    IN  IF k >= 7 THEN 0
        ELSE ExpTable[k + 1] - ((ExpTable[k + 1] - ExpTable[k + 2]) * f) \div 1000

\* settings.sensor_sampling_rate = 1.0: expected_interval is 1 s and
\* max_acceptable_std = expected_interval * 0.1 is 100 ms
MaxAcceptableStdMillis == 100

CalculateTimeConsistencyScore(timestamps) ==
    Except(IF Len(timestamps) < 2 THEN Returned(0)
           ELSE LET std_dev == StdScaled(TimeIntervals(timestamps), 1000)
                IN  IF std_dev <= MaxAcceptableStdMillis THEN Returned(1000)
                    ELSE Returned(Max2(0, ExpNeg(MilliRatio(std_dev, MaxAcceptableStdMillis)))),
           0)

\* ideal dynamic range 0.1 g .. 10 g, in tenths of g
SignalRangeMin == 1
SignalRangeMax == 100

CalculateSignalQualityScore(values) ==
    Except(IF values = <<>> THEN Returned(0)
           ELSE LET signal_range == MaxSeq(values) - MinSeq(values)
                IN  IF SignalRangeMin <= signal_range /\ signal_range <= SignalRangeMax
                    THEN Returned(1000)
                    ELSE IF signal_range < SignalRangeMin
                    THEN Returned(MilliRatio(signal_range, SignalRangeMin))
                    ELSE Returned(Max2(0, 1000 - MilliRatio(signal_range - SignalRangeMax,
                                                            SignalRangeMax))),
           0)

\* max(0.0, 1.0 - saturation_ratio * 10)
CalculateSaturationScore(values, threshold) ==
    Except(IF values = <<>> THEN Returned(0)
           ELSE LET saturated_count == CountIf(values, LAMBDA v : Abs(v) >= threshold)
                IN  Returned(Max2(0, 1000 - 10 * MilliRatio(saturated_count, Len(values)))),
           0)

\* np.diff
Diff(values) == [i \in 1..(Len(values) - 1) |-> values[i + 1] - values[i]]

\* max_acceptable_noise = 0.1 g, in tenths of g
MaxAcceptableNoise == 1

\* rows is len(data); values is data.flatten()
CalculateNoiseScore(rows, values) ==
    Except(IF values = <<>> THEN Returned(0)
           ELSE IF rows > 1
           THEN LET diff == Diff(values)
                    n == Len(diff)
                IN  \* noise_level <= max_acceptable_noise, as variances
                    IF SqDev(diff) <= MaxAcceptableNoise * MaxAcceptableNoise * n * n * n
                    THEN Returned(1000)
                    ELSE Returned(Max2(0, 1000 - MilliRatio(StdScaled(diff, 1),
                                                            MaxAcceptableNoise)))
           ELSE Returned(1000),
           0)

\* np.sqrt(np.sum(data**2, axis=1)) of one row, in hundredths of g
Magnitude(reading) ==
    ISqrt((reading.x * reading.x + reading.y * reading.y + reading.z * reading.z) * 100)

\* ideal variance of the magnitude 0.01 .. 1.0 g^2, in (g/100)^2
MovementVarMin == 100
MovementVarMax == 10000

CalculateMovementScore(accel) ==
    Except(IF accel = <<>> THEN Returned(0)
           ELSE LET movement_variance ==
                        Variance([i \in DOMAIN accel |-> Magnitude(accel[i])])
                IN  IF MovementVarMin <= movement_variance
                       /\ movement_variance <= MovementVarMax
                    THEN Returned(1000)
                    ELSE IF movement_variance < MovementVarMin
                    THEN Returned(MilliRatio(movement_variance, MovementVarMin))
                    ELSE Returned(Max2(0, 1000 - MilliRatio(movement_variance - MovementVarMax,
                                                            MovementVarMax))),
           0)

\* sum(quality_scores[key] * weights[key] for key in weights), weights in
\* thousandths
WeightedSum(scores, weights) ==
    SumSeq([i \in DOMAIN weights |-> scores[i] * weights[i]]) \div 1000

AccelWeights == <<300, 200, 200, 200, 100>>

AudioWeights == <<250, 250, 250, 150, 100>>

NoData == [overall_score |-> 0, error |-> "no data"]

AssessAccelerometerQuality(accel) ==
    Except(IF accel = <<>> THEN Returned(NoData)
           ELSE LET values == AccelValues(accel)
                    tc == CalculateTimeConsistencyScore(Timestamps(accel))
                    sq == CalculateSignalQualityScore(values)
                    ns == CalculateSaturationScore(values, AccelSaturationThreshold)
                    ln == CalculateNoiseScore(Len(accel), values)
                    mp == CalculateMovementScore(accel)
                IN  IF \E o \in {tc, sq, ns, ln, mp} : o.status = "raised" THEN Raised
                    ELSE Returned(
                        [time_consistency |-> tc.value,
                         signal_quality |-> sq.value,
                         no_saturation |-> ns.value,
                         low_noise |-> ln.value,
                         movement_pattern |-> mp.value,
                         overall_score |->
                             WeightedSum(<<tc.value, sq.value, ns.value, ln.value, mp.value>>,
                                         AccelWeights)]),
           [overall_score |-> 0, error |-> "exception"])

\* 0.01 <= mean_amplitude <= 0.8 and max_amplitude < 0.95, in thousandths
SignalLevelMin == 10
SignalLevelMax == 800
SignalLevelPeak == 950

CalculateAudioSignalLevelScore(amplitudes) ==
    Except(IF amplitudes = <<>> THEN Returned(0)
           ELSE LET mean_amplitude == SumSeq(amplitudes) \div Len(amplitudes)
                    max_amplitude == MaxSeq(amplitudes)
                IN  IF /\ SignalLevelMin <= mean_amplitude
                       /\ mean_amplitude <= SignalLevelMax
                       /\ max_amplitude < SignalLevelPeak
                    THEN Returned(1000)
                    ELSE IF mean_amplitude < SignalLevelMin
                    THEN Returned(MilliRatio(mean_amplitude, SignalLevelMin))
                    \* max(0.0, 1.0 - (mean_amplitude - 0.8) / 0.2)
                    ELSE Returned(Max2(0, 1000 - MilliRatio(mean_amplitude - SignalLevelMax,
                                                            1000 - SignalLevelMax))),
           0)

\* ideal_variance = 0.1, in millionths
IdealBandVariance == 100000

\* the score of one band from its values over all readings
BandScore(values) ==
    LET variance == Variance(values)
    IN  IF variance <= IdealBandVariance THEN 1000
        ELSE Max2(0, 1000 - MilliRatio(variance - IdealBandVariance, IdealBandVariance))

\* np.array(freq_bands) of lists of different lengths is not a matrix, and
\* np.var(..., axis=0) raises
CalculateFrequencyQualityScore(freq_bands) ==
    Except(IF freq_bands = <<>> THEN Returned(0)
           ELSE IF \E i \in DOMAIN freq_bands : Len(freq_bands[i]) # Len(freq_bands[1])
           THEN Raised
           ELSE LET scores ==
                        [j \in 1..Len(freq_bands[1]) |->
                            BandScore([i \in DOMAIN freq_bands |-> freq_bands[i][j]])]
                IN  Returned(SumSeq(scores) \div Len(scores)),
           0)

\* max_acceptable_diff = 0.05, in thousandths
MaxAcceptableDiff == 50

CalculateAudioNoiseScore(amplitudes) ==
    Except(IF Len(amplitudes) < 2 THEN Returned(1000)
           ELSE LET diffs == [i \in 1..(Len(amplitudes) - 1) |->
                                 Abs(amplitudes[i + 1] - amplitudes[i])]
                    mean_diff == SumSeq(diffs) \div Len(diffs)
                IN  IF SumSeq(diffs) <= MaxAcceptableDiff * Len(diffs) THEN Returned(1000)
                    ELSE Returned(Max2(0, 1000 - MilliRatio(mean_diff, MaxAcceptableDiff))),
           0)

AssessAudioQuality(audio) ==
    Except(IF audio = <<>> THEN Returned(NoData)
           ELSE LET amplitudes == Amplitudes(audio)
                    tc == CalculateTimeConsistencyScore(Timestamps(audio))
                    sl == CalculateAudioSignalLevelScore(amplitudes)
                    fq == CalculateFrequencyQualityScore(
                              [i \in DOMAIN audio |-> audio[i].frequency_bands])
                    ns == CalculateSaturationScore(amplitudes, SignalLevelPeak)
                    ln == CalculateAudioNoiseScore(amplitudes)
                IN  IF \E o \in {tc, sl, fq, ns, ln} : o.status = "raised" THEN Raised
                    ELSE Returned(
                        [time_consistency |-> tc.value,
                         signal_level |-> sl.value,
                         frequency_quality |-> fq.value,
                         no_saturation |-> ns.value,
                         low_noise |-> ln.value,
                         overall_score |->
                             WeightedSum(<<tc.value, sl.value, fq.value, ns.value, ln.value>>,
                                         AudioWeights)]),
           [overall_score |-> 0, error |-> "exception"])

\* percentages are tenths of a percent
\* (expected_count - actual_count) / expected_count raises ZeroDivisionError
\* when the readings span less than one sampling period
CalculateMissingDataPercentage(accel, audio) ==
    Except(IF accel = <<>> \/ audio = <<>> THEN Returned(1000)
           ELSE LET times == Timestamps(accel)
                    expected_count == MaxSeq(times) - MinSeq(times)
                    actual_count == Len(accel)
                IN  IF expected_count = 0 THEN Raised
                    ELSE Returned(Min2(1000,
                             Max2(0, MilliRatio(expected_count - actual_count,
                                                expected_count)))),
           0)

\* four times np.percentile(values, q) for q = 25 * quarter, by linear
\* interpolation between the order statistics
PercentileTimes4(values, quarter) ==
    LET sorted == SortAsc(values)
        pos == (Len(values) - 1) * quarter
        k == pos \div 4
        r == pos % 4
    IN  IF r = 0 THEN 4 * sorted[k + 1]
        ELSE 4 * sorted[k + 1] + r * (sorted[k + 2] - sorted[k + 1])

\* number of values outside [q1 - 1.5 * iqr, q3 + 1.5 * iqr]
OutlierCount(values) ==
    LET q1 == PercentileTimes4(values, 1)
        q3 == PercentileTimes4(values, 3)
        iqr == q3 - q1
    IN  CountIf(values, LAMBDA v : 8 * v < 2 * q1 - 3 * iqr \/ 8 * v > 2 * q3 + 3 * iqr)

CalculateOutlierPercentage(accel, audio) ==
    Except(LET accel_values == AccelValues(accel)
               audio_amplitudes == Amplitudes(audio)
               outlier_count ==
                   (IF accel_values # <<>> THEN OutlierCount(accel_values) ELSE 0)
                   + (IF audio_amplitudes # <<>> THEN OutlierCount(audio_amplitudes) ELSE 0)
               total_count == Len(accel_values) + Len(audio_amplitudes)
           IN  IF total_count = 0 THEN Returned(0)
               ELSE Returned(MilliRatio(outlier_count, total_count)),
           0)

\* min(1.0, avg_change / 0.5) for the accelerometer (tenths of g) and
\* min(1.0, avg_change / 0.1) for the audio amplitude (thousandths)
AssessNoiseLevel(accel, audio) ==
    Except(LET accel_changes == AccelChanges(accel, Len(accel))
               amplitude_changes == AmplitudeChanges(audio, Len(audio))
               accel_score ==
                   IF Len(accel) > 1
                   THEN <<Min2(1000, MilliRatio(SumSeq(accel_changes), 5 * Len(accel_changes)))>>
                   ELSE <<>>
               audio_score ==
                   IF Len(audio) > 1
                   THEN <<Min2(1000, MilliRatio(SumSeq(amplitude_changes),
                                                100 * Len(amplitude_changes)))>>
                   ELSE <<>>
               noise_scores == accel_score \o audio_score
           IN  IF noise_scores = <<>> THEN Returned(0)
               ELSE Returned(SumSeq(noise_scores) \div Len(noise_scores)),
           500)

\* quality.get(key, 1.0)
\* mutant of GetScore: an absent sub-score counts as 0.0
GetScore_AbsentIsZero(quality, key) == IF key \in DOMAIN quality THEN quality[key] ELSE 0

\* accel_quality.get(key, 1.0)
GetScore(quality, key) == IF key \in DOMAIN quality THEN quality[key] ELSE 1000

GenerateRecommendations(overall_score, accel_quality, audio_quality, missing, outlier, noise) ==
    LET found ==
            (IF overall_score < 700 THEN <<"overall_low">> ELSE <<>>)
            \o (IF missing > 50 THEN <<"missing_data">> ELSE <<>>)
            \o (IF outlier > 100 THEN <<"outliers">> ELSE <<>>)
            \o (IF noise > 700 THEN <<"noise">> ELSE <<>>)
            \o (IF GetScore(accel_quality, "time_consistency") < 800
                THEN <<"accel_irregular">> ELSE <<>>)
            \o (IF GetScore(accel_quality, "no_saturation") < 800
                THEN <<"accel_saturation">> ELSE <<>>)
            \o (IF GetScore(audio_quality, "signal_level") < 700
                THEN <<"audio_level">> ELSE <<>>)
            \o (IF GetScore(audio_quality, "no_saturation") < 800
                THEN <<"audio_saturation">> ELSE <<>>)
    IN  IF found = <<>> THEN <<"quality_good">> ELSE found

DataQualityReport(overall, accel_quality, audio_quality, missing, outlier, noise, recs) ==
    [overall_score |-> overall,
     accelerometer_quality |-> accel_quality,
     audio_quality |-> audio_quality,
     missing_data_percentage |-> missing,
     outlier_percentage |-> outlier,
     noise_level |-> noise,
     recommendations |-> recs]

\* the report of the outermost except
DefaultReport ==
    DataQualityReport(500, [overall_score |-> 500, error |-> "exception"],
                      [overall_score |-> 500, error |-> "exception"],
                      0, 0, 500, <<"evaluation_error">>)

\* whether the report class takes the values computed for a request
ReportConstructions == {"accepted", "rejected"}

\* `construction` is what DataQualityReport(...) of the try block does with
\* the computed values; the report of the except block is always built
check_data_quality(accel, audio, construction) ==
    Except(LET accel_quality == AssessAccelerometerQuality(accel)
               audio_quality == AssessAudioQuality(audio)
               missing == CalculateMissingDataPercentage(accel, audio)
               outlier == CalculateOutlierPercentage(accel, audio)
               noise == AssessNoiseLevel(accel, audio)
           IN  IF \/ accel_quality.status = "raised"
                  \/ audio_quality.status = "raised"
                  \/ missing.status = "raised"
                  \/ outlier.status = "raised"
                  \/ noise.status = "raised"
                  \/ construction = "rejected"
               THEN Raised
               ELSE LET overall_score ==
                            (accel_quality.value.overall_score
                                + audio_quality.value.overall_score) \div 2
                    IN  Returned(DataQualityReport(
                            overall_score, accel_quality.value, audio_quality.value,
                            missing.value, outlier.value, noise.value,
                            GenerateRecommendations(
                                overall_score, accel_quality.value, audio_quality.value,
                                missing.value, outlier.value, noise.value))),
           DefaultReport)

\* ----------------------------------------------------------------------
\* Validation and scoring of the streams of one request
\* ----------------------------------------------------------------------
\* the result aggregator has nothing to aggregate
PostIdle ==
    /\ recording_start = 0
    /\ recording_end = 0
    /\ predictions = <<>>
    /\ probabilities = <<>>
    /\ confidence_scores = <<>>
    /\ pc = "idle"
    /\ response = NoResponse

\* the i-th timestamp of a stream sampled every `period` seconds from
\* `start`, the readings after position `late` arriving one second late
TimeAt(i, start, period, late) ==
    start + (i - 1) * period + (IF late > 0 /\ i > late THEN 1 ELSE 0)

\* x, y, z of a sensor at rest, and of a tilted, a saturated and an
\* implausibly accelerated one (tenths of g)
AccelRest == <<0, 0, 10>>

AccelDeviants == {<<1, 0, 10>>, <<190, 0, 0>>, <<510, 0, 0>>}

AccelPeriods == {1, 90, 50000}

\* streams of n readings at rest, at most one of them deviant
AccelStreams(n) ==
    {[i \in 1..n |->
         LET v == IF i = at THEN deviant ELSE AccelRest
         IN  AccelerometerReading(TimeAt(i, 0, period, late), v[1], v[2], v[3])] :
       period \in AccelPeriods, late \in 0..Max2(0, n - 1), at \in 0..n,
       deviant \in AccelDeviants}

AudioStarts == {0, 100}

AudioLevels == {5, 500}

BandCount == 8

BandKinds == {"steady", "out_of_range", "swinging", "ragged"}

\* the frequency bands of reading i of n
BandsOf(kind, i, n) ==
    IF kind = "ragged" /\ i = n THEN [j \in 1..(BandCount - 1) |-> 500]
    ELSE [j \in 1..BandCount |->
             IF j = 1 /\ kind = "out_of_range" /\ i = 1 THEN 1500
             ELSE IF j = 1 /\ kind = "swinging" THEN (i % 2) * 1000
             ELSE 500]

\* streams of n readings one second apart at one level, at most one of them
\* at full amplitude
AudioStreams(n) ==
    {[i \in 1..n |->
         AudioReading(TimeAt(i, start, 1, 0),
                      IF i = at THEN 1000 ELSE level,
                      BandsOf(kind, i, n))] :
       start \in AudioStarts, level \in AudioLevels, at \in 0..n, kind \in BandKinds}

InitShortStreams ==
    /\ accelerometer_data \in UNION {AccelStreams(n) : n \in 0..MaxSamples}
    /\ audio_data \in UNION {AudioStreams(n) : n \in 0..MaxSamples}

\* streams long enough for the noise checks of the validation: readings
\* thirty seconds apart, steady or swinging between two values
InitNoiseStreams ==
    \E accel_swing \in {0, 60}, audio_swing \in {0, 600} :
        /\ accelerometer_data =
               [i \in 1..(NoiseCheckSamples + 1) |->
                   AccelerometerReading(TimeAt(i, 0, stage_interval_seconds, 0),
                                        (i % 2) * accel_swing, 0, 10)]
        /\ audio_data =
               [i \in 1..(NoiseCheckSamples + 1) |->
                   AudioReading(TimeAt(i, 0, stage_interval_seconds, 0),
                                200 + (i % 2) * audio_swing,
                                BandsOf("steady", i, NoiseCheckSamples + 1))]

InitSensor ==
    /\ (InitShortStreams \/ InitNoiseStreams)
    /\ validation = Pending
    /\ quality_report = Pending
    /\ PostIdle
    /\ ExtractIdle
    /\ ServiceIdle
    /\ AnalysisIdle

\* validation = await validate_sensor_data(accelerometer_data, audio_data)
ValidateSensorData ==
    /\ validation.status = "pending"
    /\ validation' = validate_sensor_data(accelerometer_data, audio_data)
    /\ UNCHANGED <<accelerometer_data, audio_data, quality_report>>
    /\ UNCHANGED <<postVars, extractVars, serviceVars, analysisVars>>

\* quality_report = await check_data_quality(accelerometer_data, audio_data)
CheckDataQuality ==
    /\ quality_report.status = "pending"
    /\ \E construction \in ReportConstructions :
           quality_report' = check_data_quality(accelerometer_data, audio_data, construction)
    /\ UNCHANGED <<accelerometer_data, audio_data, validation>>
    /\ UNCHANGED <<postVars, extractVars, serviceVars, analysisVars>>

NextSensor == ValidateSensorData \/ CheckDataQuality

SpecSensor == InitSensor /\ [][NextSensor]_vars

\* ----------------------------------------------------------------------
\* PreprocessorService: windowed feature extraction.  A DataFrame is the
\* sequence of its rows, a row being a function from column names to
\* values.  Feature values are hundredths of the unit of the column.
\* ----------------------------------------------------------------------
sensor_sampling_rate == 1

BandColumns ==
    <<"freq_band_0", "freq_band_1", "freq_band_2", "freq_band_3",
      "freq_band_4", "freq_band_5", "freq_band_6", "freq_band_7">>

AccelColumns == <<"x", "y", "z">>

\* ['amplitude'] + [f'freq_band_{i}' for i in range(8)]
AudioColumns == <<"amplitude">> \o BandColumns

\* pd.DataFrame([{'timestamp': ..., 'x': ..., 'y': ..., 'z': ...} for reading in ...])
AccelFrame(accel) ==
    [i \in DOMAIN accel |->
        [timestamp |-> accel[i].timestamp, x |-> accel[i].x,
         y |-> accel[i].y, z |-> accel[i].z]]

\* pd.DataFrame([{'timestamp': ..., 'amplitude': ...,
\*                **{f'freq_band_{i}': band for i, band in enumerate(frequency_bands)}}])
AudioFrame(audio) ==
    [i \in DOMAIN audio |->
        [c \in {"timestamp", "amplitude"}
               \cup {BandColumns[j] : j \in 1..Min2(Len(BandColumns),
                                                    Len(audio[i].frequency_bands))} |->
            IF c = "timestamp" THEN audio[i].timestamp
            ELSE IF c = "amplitude" THEN audio[i].amplitude
            ELSE audio[i].frequency_bands[CHOOSE j \in 1..Len(BandColumns) :
                                              BandColumns[j] = c]]]

\* df.sort_values('timestamp').reset_index(drop=True)
RECURSIVE InsertByTimestamp(_, _)
InsertByTimestamp(row, df) ==
    IF df = <<>> THEN <<row>>
    ELSE IF row.timestamp <= Head(df).timestamp THEN <<row>> \o df
    ELSE <<Head(df)>> \o InsertByTimestamp(row, Tail(df))

RECURSIVE SortByTimestamp(_)
SortByTimestamp(df) ==
    IF df = <<>> THEN <<>> ELSE InsertByTimestamp(Head(df), SortByTimestamp(Tail(df)))

\* range(start, stop, step) for step > 0
RECURSIVE Range(_, _, _)
Range(start, stop, step) ==
    IF start >= stop THEN <<>> ELSE <<start>> \o Range(start + step, stop, step)

\* num / den in hundredths, rounded down
Hundredths(num, den) == (num * 100) \div den

\* a statistic that is not computed here, as a function of the values it is
\* taken of
Statistic(name, values) == [statistic |-> name, of |-> values]

IsConstant(values) == \A i \in DOMAIN values : values[i] = values[1]

\* skew and kurtosis are NaN for a constant window, and NaN becomes 0.0
ShapeStatistic(name, values) ==
    IF IsConstant(values) THEN 0 ELSE Statistic(name, values)

\* mean, std, min, max, median, q25, q75, skew, kurtosis, then the mean, sum
\* and std of the absolute first differences
ExtractStatisticalFeatures(values) ==
    LET n == Len(values)
        diff == Diff(values)
        abs_diff == [i \in DOMAIN diff |-> Abs(diff[i])]
    IN  <<Hundredths(SumSeq(values), n),
          StdScaled(values, 100),
          100 * MinSeq(values),
          100 * MaxSeq(values),
          25 * PercentileTimes4(values, 2),
          25 * PercentileTimes4(values, 1),
          25 * PercentileTimes4(values, 3),
          ShapeStatistic("skew", values),
          ShapeStatistic("kurtosis", values)>>
        \o (IF n > 1
            THEN <<Hundredths(SumSeq(abs_diff), Len(diff)),
                   100 * SumSeq(abs_diff),
                   StdScaled(diff, 100)>>
            ELSE <<0, 0, 0>>)

MinFftSamples == 4

NumBands == 8

\* the relative power of the window in each of the eight bands
ExtractFrequencyFeatures(values) ==
    IF Len(values) < MinFftSamples THEN [b \in 1..NumBands |-> 0]
    ELSE [b \in 1..NumBands |-> Statistic(<<"band_ratio", b>>, values)]

\* window_data[column].values
ColumnValues(window_data, column) == [i \in DOMAIN window_data |-> window_data[i][column]]

RECURSIVE FeaturesOfColumns(_, _)
FeaturesOfColumns(window_data, columns) ==
    IF columns = <<>> THEN <<>>
    ELSE LET values == ColumnValues(window_data, Head(columns))
         IN  ExtractStatisticalFeatures(values) \o ExtractFrequencyFeatures(values)
                 \o FeaturesOfColumns(window_data, Tail(columns))

\* window_samples = int(window_size * settings.sensor_sampling_rate)
WindowSamples(window_seconds) == window_seconds * sensor_sampling_rate

\* step_size = int(window_samples * (1 - overlap)), the overlap in quarters
StepSize(window_seconds, overlap_quarters) ==
    (WindowSamples(window_seconds) * (4 - overlap_quarters)) \div 4

\* range(0, len(df) - window_samples + 1, step_size)
WindowStarts_PartialWindows(n, window_seconds, overlap_quarters) ==
    Range(0, n, StepSize(window_seconds, overlap_quarters))

WindowStarts(n, window_seconds, overlap_quarters) ==
    Range(0, n - WindowSamples(window_seconds) + 1,
          StepSize(window_seconds, overlap_quarters))

\* df.iloc[start_idx:end_idx]
WindowData(df, start_idx, end_idx) == SubSeq(df, start_idx + 1, Min2(end_idx, Len(df)))

\* range() raises ValueError for a step of zero; window_data[column] raises
\* KeyError for a column the frame does not have
ExtractWindowedFeatures(df, columns, window_seconds, overlap_quarters) ==
    IF StepSize(window_seconds, overlap_quarters) = 0 THEN Raised
    ELSE LET starts == WindowStarts(Len(df), window_seconds, overlap_quarters)
         IN  IF /\ starts # <<>>
                /\ \E j \in DOMAIN columns : columns[j] \notin DOMAIN df[1]
             THEN Raised
             ELSE Returned([k \in DOMAIN starts |->
                      FeaturesOfColumns(
                          WindowData(df, starts[k], starts[k] + WindowSamples(window_seconds)),
                          columns)])

\* sort_values('timestamp') raises KeyError on the frame of an empty list,
\* which has no columns
ProcessStream(df, columns, window_seconds, overlap_quarters) ==
    IF df = <<>> THEN Raised
    ELSE ExtractWindowedFeatures(SortByTimestamp(df), columns,
                                 window_seconds, overlap_quarters)

ProcessAccelerometerDataResult(accel, window_seconds, overlap_quarters) ==
    ProcessStream(AccelFrame(accel), AccelColumns, window_seconds, overlap_quarters)

ProcessAudioDataResult(audio, window_seconds, overlap_quarters) ==
    ProcessStream(AudioFrame(audio), AudioColumns, window_seconds, overlap_quarters)

\* accel_window[j] if len(accel_window) > j else 0.0   (j is 1-based here)
EntryOrZero(window, j) == IF Len(window) >= j THEN window[j] ELSE 0

\* audio_features[i][-1] if i < len(audio_features) and len(audio_features[i]) > 0
AudioZ(audio_features, i) ==
    IF i <= Len(audio_features) /\ Len(audio_features[i]) > 0
    THEN audio_features[i][Len(audio_features[i])]
    ELSE 0

ExtractModelSpecificFeatures(accel_features, audio_features) ==
    [i \in DOMAIN accel_features |->
        <<EntryOrZero(accel_features[i], 1),
          EntryOrZero(accel_features[i], 2),
          EntryOrZero(accel_features[i], 3),
          EntryOrZero(accel_features[i], 4),
          EntryOrZero(accel_features[i], 5),
          AudioZ(audio_features, i)>>]

FeatureNames ==
    <<"mean_acc_x", "mean_acc_y", "mean_acc_z", "acc_std_total", "acc_energy_total", "audio_z">>

ProcessedSensorData(accel, combined_features) ==
    [recording_start |-> accel[1].timestamp,
     recording_end |-> accel[Len(accel)].timestamp,
     accelerometer_features |-> combined_features,
     audio_features |-> <<>>,
     feature_names |-> FeatureNames]

\* ----------------------------------------------------------------------
\* process_sensor_data: two tasks, gathered, then fused
\* ----------------------------------------------------------------------
\* the signals of the streams: reading i carries these values
Ramp(i) == i

Saw(i) == (i % 3) * 2

Flat(i) == 10

AxisLayouts == {"ramp_saw_flat", "flat_ramp_saw"}

AxisValue(layout, axis, i) ==
    IF layout = "ramp_saw_flat"
    THEN (IF axis = 1 THEN Ramp(i) ELSE IF axis = 2 THEN Saw(i) ELSE Flat(i))
    ELSE (IF axis = 1 THEN Flat(i) ELSE IF axis = 2 THEN Ramp(i) ELSE Saw(i))

\* readings arrive in time order or in reverse
ArrivalOrders == {"ascending", "descending"}

ArrivalTime(order, i, n) == IF order = "ascending" THEN i - 1 ELSE n - i

\* window lengths in seconds, and overlaps of none and one half
WindowSeconds == 2..MaxWindowSeconds

OverlapQuarters == {0, 2}

\* numbers of frequency bands a reading may carry
BandCounts == {BandCount - 1, BandCount}

InitExtract ==
    /\ \E n \in 0..MaxStreamLen, layout \in AxisLayouts, order \in ArrivalOrders :
           accelerometer_data =
               [i \in 1..n |->
                   LET t == ArrivalTime(order, i, n)
                   IN  AccelerometerReading(t, AxisValue(layout, 1, t + 1),
                                            AxisValue(layout, 2, t + 1),
                                            AxisValue(layout, 3, t + 1))]
    /\ \E n \in 0..MaxStreamLen, bands \in BandCounts :
           audio_data =
               [i \in 1..n |->
                   AudioReading(i - 1, 5 * Saw(i), [j \in 1..bands |-> 5 * ((i + j) % 4)])]
    /\ window_size \in WindowSeconds
    /\ overlap \in OverlapQuarters
    /\ accel_task = Pending
    /\ audio_task = Pending
    /\ processed = Pending
    /\ validation = Pending
    /\ quality_report = Pending
    /\ PostIdle
    /\ ServiceIdle
    /\ AnalysisIdle

\* the task of _process_accelerometer_data runs to its end
ProcessAccelerometerData ==
    /\ accel_task.status = "pending"
    /\ accel_task' = ProcessAccelerometerDataResult(accelerometer_data, window_size, overlap)
    /\ UNCHANGED <<window_size, overlap, audio_task, processed>>
    /\ UNCHANGED <<postVars, sensorVars, serviceVars, analysisVars>>

\* the task of _process_audio_data runs to its end
ProcessAudioData ==
    /\ audio_task.status = "pending"
    /\ audio_task' = ProcessAudioDataResult(audio_data, window_size, overlap)
    /\ UNCHANGED <<window_size, overlap, accel_task, processed>>
    /\ UNCHANGED <<postVars, sensorVars, serviceVars, analysisVars>>

\* await asyncio.gather(accel_task, audio_task) with both results, then the fusion
GatherAndFuse ==
    /\ processed.status = "pending"
    /\ accel_task.status = "returned"
    /\ audio_task.status = "returned"
    /\ processed' = Returned(ProcessedSensorData(
                        accelerometer_data,
                        ExtractModelSpecificFeatures(accel_task.value, audio_task.value)))
    /\ UNCHANGED <<window_size, overlap, accel_task, audio_task>>
    /\ UNCHANGED <<postVars, sensorVars, serviceVars, analysisVars>>

\* asyncio.gather hands the first exception of a task to the caller, and
\* process_sensor_data logs and re-raises it
GatherRaises ==
    /\ processed.status = "pending"
    /\ accel_task.status = "raised" \/ audio_task.status = "raised"
    /\ processed' = Raised
    /\ UNCHANGED <<window_size, overlap, accel_task, audio_task>>
    /\ UNCHANGED <<postVars, sensorVars, serviceVars, analysisVars>>

NextExtract ==
    \/ ProcessAccelerometerData
    \/ ProcessAudioData
    \/ GatherAndFuse
    \/ GatherRaises

SpecExtract == InitExtract /\ [][NextExtract]_vars

\* ----------------------------------------------------------------------
\* ModelService: load_models, predict_sleep_stages, cleanup
\* ----------------------------------------------------------------------
\* joblib.load(model_path): a model object with or without predict_proba
Model(has_predict_proba) == [loaded |-> TRUE, has_predict_proba |-> has_predict_proba]

\* what load_models finds at the path of a file
FileStates == {"absent", "unreadable", "ok"}

\* model_metadata of both branches: the five class names and the version
LoadedMetadata == [class_names |-> class_names, model_version |-> "xgb_gpu_single_v1.0"]

\* self.model_metadata = {}
EmptyMetadata == [cleared |-> TRUE]

\* self.model_metadata.get("class_names", ["Wake", "N1", "N2", "N3", "REM"])
ClassNamesOf(metadata) ==
    IF "class_names" \in DOMAIN metadata THEN metadata.class_names ELSE class_names

\* self.model_metadata.get("model_version", "unknown")
GetModelVersion(metadata) ==
    IF "model_version" \in DOMAIN metadata THEN metadata.model_version ELSE "unknown"

\* mutant of ReadyAfterFailedLoad: the flag of an earlier load is kept
ReadyAfterFailedLoad_Kept(ready) == ready

\* except Exception: self._is_ready = False; raise
ReadyAfterFailedLoad(ready) == FALSE

\* the service after load_models, and whether the call returned
load_models(service, model_file, feature_meta, model_config, has_predict_proba) ==
    LET loaded == model_file = "ok"
        meta_read == loaded /\ feature_meta # "unreadable"
        succeeded == meta_read /\ model_config # "unreadable"
    IN  [sleep_stage_model |->
             IF loaded THEN Model(has_predict_proba) ELSE service.sleep_stage_model,
         preprocessing_params |->
             IF meta_read
             THEN (IF feature_meta = "ok" THEN "feature_meta" ELSE "default")
             ELSE service.preprocessing_params,
         model_metadata |-> IF succeeded THEN LoadedMetadata ELSE service.model_metadata,
         is_ready |-> IF succeeded THEN TRUE ELSE ReadyAfterFailedLoad(service.is_ready),
         status |-> IF succeeded THEN "returned" ELSE "raised"]

\* the class indices a five-class model predicts
ModelLabels == 0..(Len(class_names) - 1)

\* mutant of DummyIndex: the 1.0 goes to the class after the predicted one
DummyIndex_Shifted(pred) == ((pred + 1) % Len(class_names)) + 1

\* dummy_probs[i, int(pred)] = 1.0: the column of the predicted class
DummyIndex(pred) == pred + 1

\* np.zeros((len(predictions), n_classes)) with 1.0 at the predicted class
DummyProbabilities(labels, n_classes) ==
    [i \in 1..Len(labels) |->
        [j \in 1..n_classes |-> IF j = DummyIndex(labels[i]) THEN One ELSE 0]]

\* what the probability call of the model does: predict_proba, or predict
\* once more when the model has no predict_proba
ProbabilityCalls(model) ==
    IF model.has_predict_proba THEN {"matrix", "raises"} ELSE {"labels", "matrix", "raises"}

\* lines 105-128: the probabilities of the model, or the dummy ones when the
\* call returned one value per window or raised
Probabilities(labels, n_classes, probability_call, matrix) ==
    IF probability_call = "matrix" THEN matrix ELSE DummyProbabilities(labels, n_classes)

ModelPrediction(preds, probas, confs, version) ==
    [predictions |-> preds, probabilities |-> probas, confidence_scores |-> confs,
     model_version |-> version]

\* predict_sleep_stages on `rows` feature vectors: its outcome and the number
\* of calls of the model it made.  label_call and probability_call are what
\* the model does when called, labels and matrix what it returns.
predict_sleep_stages(service, rows, label_call, labels, probability_call, matrix) ==
    IF ~service.is_ready THEN [outcome |-> Raised, calls |-> 0]
    ELSE IF rows = 0 THEN [outcome |-> Raised, calls |-> 0]
    ELSE IF label_call = "raises" THEN [outcome |-> Raised, calls |-> 1]
    ELSE LET names == ClassNamesOf(service.model_metadata)
             probabilities_ == Probabilities(labels, Len(names), probability_call, matrix)
         IN  [outcome |->
                  Returned(ModelPrediction(
                      [i \in 1..Len(labels) |-> names[labels[i] + 1]],
                      probabilities_,
                      ConfidenceScores(probabilities_),
                      GetModelVersion(service.model_metadata))),
              calls |-> 2]

\* the fields of the service as one record
Service ==
    [sleep_stage_model |-> sleep_stage_model, preprocessing_params |-> preprocessing_params,
     model_metadata |-> model_metadata, is_ready |-> is_ready]

\* ----------------------------------------------------------------------
\* Calls on the model service, one after the other
\* ----------------------------------------------------------------------
InitService ==
    /\ ServiceIdle
    /\ PostIdle
    /\ SensorIdle
    /\ ExtractIdle
    /\ AnalysisIdle

\* the probability matrices of a model for the labels: 1.0, 0.75 or 0.375 on
\* the predicted class of every row
MatricesFor(labels) ==
    {[i \in 1..Len(labels) |-> ThreeClassVector(class_names[labels[i] + 1], top)] :
        top \in ConfidenceValues \cup {One}}

\* await model_service.load_models()
LoadModels ==
    /\ \E model_file \in FileStates :
       \E feature_meta \in (IF model_file = "ok" THEN FileStates ELSE {"absent"}) :
       \E model_config \in (IF feature_meta # "unreadable" THEN FileStates ELSE {"absent"}) :
       \E has_predict_proba \in (IF model_file = "ok" THEN BOOLEAN ELSE {FALSE}) :
           LET after == load_models(Service, model_file, feature_meta, model_config,
                                    has_predict_proba)
           IN  /\ sleep_stage_model' = after.sleep_stage_model
               /\ preprocessing_params' = after.preprocessing_params
               /\ model_metadata' = after.model_metadata
               /\ is_ready' = after.is_ready
               /\ last_call' = [op |-> "load_models", status |-> after.status]
    /\ prediction' = Pending
    /\ model_calls' = 0
    /\ UNCHANGED <<postVars, sensorVars, extractVars, analysisVars>>

\* await model_service.predict_sleep_stages(processed_data)
PredictSleepStages ==
    /\ \E rows \in (IF is_ready THEN 0..MaxPredictWindows ELSE {0}) :
       \E label_call \in (IF rows > 0 THEN {"returns", "raises"} ELSE {"raises"}) :
       \E labels \in (IF label_call = "returns" THEN [1..rows -> ModelLabels] ELSE {<<>>}) :
       \E probability_call \in
              (IF label_call = "returns" THEN ProbabilityCalls(sleep_stage_model)
               ELSE {"none"}) :
       \E matrix \in (IF probability_call = "matrix" THEN MatricesFor(labels) ELSE {<<>>}) :
           LET result == predict_sleep_stages(Service, rows, label_call, labels,
                                              probability_call, matrix)
           IN  /\ prediction' = result.outcome
               /\ model_calls' = result.calls
               /\ last_call' = [op |-> "predict_sleep_stages",
                                status |-> result.outcome.status,
                                probability_call |-> probability_call]
    /\ UNCHANGED <<is_ready, sleep_stage_model, preprocessing_params, model_metadata>>
    /\ UNCHANGED <<postVars, sensorVars, extractVars, analysisVars>>

\* await model_service.cleanup()
Cleanup ==
    /\ sleep_stage_model' = NoModel
    /\ preprocessing_params' = "None"
    /\ model_metadata' = EmptyMetadata
    /\ is_ready' = FALSE
    /\ last_call' = [op |-> "cleanup", status |-> "returned"]
    /\ prediction' = Pending
    /\ model_calls' = 0
    /\ UNCHANGED <<postVars, sensorVars, extractVars, analysisVars>>

NextService == LoadModels \/ PredictSleepStages \/ Cleanup

SpecService == InitService /\ [][NextService]_vars

\* ----------------------------------------------------------------------
\* analyze_sleep_data: one request through the pipeline, its database row,
\* the background task that updates the row, and the lookups of the row
\* ----------------------------------------------------------------------
\* process_sensor_data as one call: both tasks, the gather and the fusion
process_sensor_data(accel, audio, window_seconds, overlap_quarters) ==
    LET accel_result == ProcessAccelerometerDataResult(accel, window_seconds, overlap_quarters)
        audio_result == ProcessAudioDataResult(audio, window_seconds, overlap_quarters)
    IN  IF accel_result.status = "returned" /\ audio_result.status = "returned"
        THEN Returned(ProcessedSensorData(
                 accel, ExtractModelSpecificFeatures(accel_result.value, audio_result.value)))
        ELSE Raised

\* Python's None where a record may stand, and the empty dict
None == [none |-> TRUE]

EmptyDict == [empty |-> TRUE]

\* SleepAnalysis(..., status="processing", summary_statistics={})
NewRow ==
    [exists |-> TRUE, status |-> "processing", error_message |-> "None",
     summary_statistics |-> EmptyDict]

\* background_tasks.add_task(update_analysis_results, db, analysis_id, response, "completed")
CompletedTask(resp) == [status |-> "completed", error_message |-> "None", response |-> resp]

\* background_tasks.add_task(update_analysis_results, db, analysis_id, None, "failed", str(e))
FailedTask == [status |-> "failed", error_message |-> "str(e)", response |-> None]

\* if 'sleep_analysis' in locals(): background_tasks.add_task(..., "failed", str(e))
TasksAfterError(tasks, created) == IF created THEN Append(tasks, FailedTask) ELSE tasks

\* sleep_analysis has been assigned: the step that creates the row was taken
RecordCreated(done) == \E i \in DOMAIN done : done[i] = "create_record"

\* mutant of Rejects: the result of the validation is not looked at
Rejects_Never(validation_result) == FALSE

\* if not validation_result.is_valid: raise HTTPException(status_code=422, ...)
Rejects(validation_result) == ~validation_result.is_valid

\* the row after update_analysis_results(db, analysis_id, response, status, error_message)
update_analysis_results(row, task) ==
    IF row.exists
    THEN [row EXCEPT !.status = task.status,
                     !.error_message = task.error_message,
                     !.summary_statistics =
                         IF task.response # None /\ task.status = "completed"
                         THEN task.response.summary_statistics
                         ELSE row.summary_statistics]
    ELSE row

\* the negation of `analysis.status != "completed"`
ResultAvailable(row) == row.status = "completed"

\* get_analysis_result: 404 without a row, 400 unless it is completed
get_analysis_result(row) ==
    IF ~row.exists THEN [status |-> 404]
    ELSE IF ~ResultAvailable(row) THEN [status |-> 400]
    ELSE [status |-> 200, summary_statistics |-> row.summary_statistics]

\* the steps of analyze_sleep_data, in the order of its code
PipelineSteps ==
    <<"validate", "score", "create_record", "extract", "predict", "aggregate">>

\* the request has been answered: a response, a 422 or a 500
Answered == request \in {"responded", "rejected", "errored"}

\* the tasks added to background_tasks travel with the response that is made
\* of the value the handler returns (`return response`) and run once it is
\* sent; the HTTPException of the except block is answered by the exception
\* handler of the framework, whose response carries no task
TasksRun(req) == req = "responded"

\* readings of the request: accelerometer at rest with a one-bit jitter on
\* x, audio as in the extraction
AnalysisAccel(n) == [i \in 1..n |-> AccelerometerReading(i - 1, i % 2, 0, 10)]

AnalysisAudio(n, bands) ==
    [i \in 1..n |-> AudioReading(i - 1, 5 * Saw(i), [j \in 1..bands |-> 5 * ((i + j) % 4)])]

\* a stream is absent, shorter than a window, or MaxAnalysisSamples long
AnalysisStreamLens == {0, 1, MaxAnalysisSamples}

InitAnalysis ==
    /\ \E n \in AnalysisStreamLens : accelerometer_data = AnalysisAccel(n)
    /\ \E n \in AnalysisStreamLens, bands \in BandCounts :
           audio_data = AnalysisAudio(n, bands)
    /\ validation = Pending
    /\ quality_report = Pending
    /\ window_size = 2
    /\ overlap = 0
    /\ accel_task = Pending
    /\ audio_task = Pending
    /\ processed = Pending
    /\ is_ready = TRUE
    /\ \E has_predict_proba \in BOOLEAN : sleep_stage_model = Model(has_predict_proba)
    /\ preprocessing_params = "default"
    /\ model_metadata = LoadedMetadata
    /\ prediction = Pending
    /\ model_calls = 0
    /\ last_call = [op |-> "load_models", status |-> "returned"]
    /\ recording_start = 0
    /\ recording_end = MaxAnalysisSamples * stage_interval_seconds
    /\ predictions = <<>>
    /\ probabilities = <<>>
    /\ confidence_scores = <<>>
    /\ pc = "idle"
    /\ response = NoResponse
    /\ request = "received"
    /\ steps = <<>>
    /\ db = NoRow
    /\ background_tasks = <<>>
    /\ lookup = NoLookup

\* lines 55-64: the validation, and the 422 when the data is not valid
Validate ==
    /\ request = "received"
    /\ LET result == validate_sensor_data(accelerometer_data, audio_data)
       IN  /\ validation' = result
           /\ request' = IF Rejects(result.value) THEN "rejected" ELSE "validated"
    /\ steps' = Append(steps, "validate")
    /\ UNCHANGED <<accelerometer_data, audio_data, quality_report>>
    /\ UNCHANGED <<db, background_tasks, lookup>>
    /\ UNCHANGED <<postVars, extractVars, serviceVars>>

\* lines 69-79: the quality report, which only logs when the score is low
Score ==
    /\ request = "validated"
    /\ \E construction \in ReportConstructions :
           quality_report' = check_data_quality(accelerometer_data, audio_data, construction)
    /\ request' = "scored"
    /\ steps' = Append(steps, "score")
    /\ UNCHANGED <<accelerometer_data, audio_data, validation>>
    /\ UNCHANGED <<db, background_tasks, lookup>>
    /\ UNCHANGED <<postVars, extractVars, serviceVars>>

\* lines 82-94: db.add(sleep_analysis); db.commit()
CreateRecord ==
    /\ request = "scored"
    /\ db' = NewRow
    /\ request' = "recorded"
    /\ steps' = Append(steps, "create_record")
    /\ UNCHANGED <<background_tasks, lookup>>
    /\ UNCHANGED <<postVars, sensorVars, extractVars, serviceVars>>

\* lines 103-106, and lines 147-169 when process_sensor_data raises
Extract ==
    /\ request = "recorded"
    /\ accel_task' = ProcessAccelerometerDataResult(accelerometer_data, window_size, overlap)
    /\ audio_task' = ProcessAudioDataResult(audio_data, window_size, overlap)
    /\ LET result == process_sensor_data(accelerometer_data, audio_data, window_size, overlap)
       IN  /\ processed' = result
           /\ request' = IF result.status = "returned" THEN "extracted" ELSE "errored"
           /\ background_tasks' =
                  IF result.status = "returned" THEN background_tasks
                  ELSE TasksAfterError(background_tasks, RecordCreated(steps))
    /\ steps' = Append(steps, "extract")
    /\ UNCHANGED <<window_size, overlap>>
    /\ UNCHANGED <<db, lookup>>
    /\ UNCHANGED <<postVars, sensorVars, serviceVars>>

\* line 111, and lines 147-169 when predict_sleep_stages raises
Predict ==
    /\ request = "extracted"
    /\ LET rows == Len(processed.value.accelerometer_features)
       IN  \E label_call \in (IF rows > 0 THEN {"returns", "raises"} ELSE {"raises"}) :
           \E labels \in (IF label_call = "returns" THEN [1..rows -> ModelLabels] ELSE {<<>>}) :
           \E probability_call \in
                  (IF label_call = "returns" THEN ProbabilityCalls(sleep_stage_model)
                   ELSE {"none"}) :
           \E matrix \in (IF probability_call = "matrix" THEN MatricesFor(labels) ELSE {<<>>}) :
               LET result == predict_sleep_stages(Service, rows, label_call, labels,
                                                  probability_call, matrix)
                   returned == result.outcome.status = "returned"
               IN  /\ prediction' = result.outcome
                   /\ model_calls' = result.calls
                   /\ last_call' = [op |-> "predict_sleep_stages",
                                    status |-> result.outcome.status,
                                    probability_call |-> probability_call]
                   /\ predictions' = IF returned THEN result.outcome.value.predictions
                                     ELSE predictions
                   /\ probabilities' = IF returned THEN result.outcome.value.probabilities
                                       ELSE probabilities
                   /\ confidence_scores' =
                          IF returned THEN result.outcome.value.confidence_scores
                          ELSE confidence_scores
                   /\ pc' = IF returned THEN "predicted" ELSE pc
                   /\ request' = IF returned THEN "predicted" ELSE "errored"
                   /\ background_tasks' =
                          IF returned THEN background_tasks
                          ELSE TasksAfterError(background_tasks, RecordCreated(steps))
    /\ steps' = Append(steps, "predict")
    /\ UNCHANGED <<is_ready, sleep_stage_model, preprocessing_params, model_metadata>>
    /\ UNCHANGED <<recording_start, recording_end, response>>
    /\ UNCHANGED <<db, lookup>>
    /\ UNCHANGED <<sensorVars, extractVars>>

\* lines 116-142, and lines 147-169 when format_analysis_response raises
Aggregate ==
    /\ request = "predicted"
    /\ LET result == format_analysis_response(recording_start, recording_end,
                                              predictions, probabilities, confidence_scores)
           returned == result.status = "returned"
       IN  /\ response' = IF returned THEN result.value ELSE response
           /\ pc' = IF returned THEN "done" ELSE "failed"
           /\ request' = IF returned THEN "responded" ELSE "errored"
           /\ background_tasks' =
                  IF returned THEN Append(background_tasks, CompletedTask(result.value))
                  ELSE TasksAfterError(background_tasks, RecordCreated(steps))
    /\ steps' = Append(steps, "aggregate")
    /\ UNCHANGED <<recording_start, recording_end, predictions, probabilities,
                   confidence_scores>>
    /\ UNCHANGED <<db, lookup>>
    /\ UNCHANGED <<sensorVars, extractVars, serviceVars>>

\* the background task runs once the request has been answered
UpdateAnalysisResults ==
    /\ TasksRun(request)
    /\ background_tasks # <<>>
    /\ db' = update_analysis_results(db, Head(background_tasks))
    /\ background_tasks' = Tail(background_tasks)
    /\ UNCHANGED <<request, steps, lookup>>
    /\ UNCHANGED <<postVars, sensorVars, extractVars, serviceVars>>

\* GET /result/{analysis_id}, at any moment
GetAnalysisResult ==
    /\ lookup' = get_analysis_result(db)
    /\ UNCHANGED <<request, steps, db, background_tasks>>
    /\ UNCHANGED <<postVars, sensorVars, extractVars, serviceVars>>

\* DELETE /analysis/{analysis_id} of an existing row, at any moment
DeleteAnalysis ==
    /\ db.exists
    /\ db' = NoRow
    /\ UNCHANGED <<request, steps, background_tasks, lookup>>
    /\ UNCHANGED <<postVars, sensorVars, extractVars, serviceVars>>

NextAnalysis ==
    \/ Validate
    \/ Score
    \/ CreateRecord
    \/ Extract
    \/ Predict
    \/ Aggregate
    \/ UpdateAnalysisResults
    \/ GetAnalysisResult
    \/ DeleteAnalysis

SpecAnalysis == InitAnalysis /\ [][NextAnalysis]_vars

\* ----------------------------------------------------------------------
\* Shorthands used by the properties
\* ----------------------------------------------------------------------
Done == pc = "done"

N == Len(predictions)

Intervals == response.stage_intervals

Stats == response.summary_statistics

TypeOK ==
    /\ pc \in {"predicted", "done", "failed"}
    /\ Len(confidence_scores) = Len(probabilities)
    /\ recording_end >= recording_start

\* length of an interval in windows
WindowsOf(interval) ==
    (interval.end_time - interval.start_time) \div stage_interval_seconds

RECURSIVE SumWindows(_, _)
SumWindows(ivs, k) ==
    IF k > Len(ivs) THEN 0 ELSE WindowsOf(ivs[k]) + SumWindows(ivs, k + 1)

\* Python indices i (1 <= i < N) at which the label differs from the one before
ChangeIndices == {i \in 1..(N - 1) : predictions[i + 1] # predictions[i]}

\* the Python index that ends the k-th run of equal labels
RunEnd(k) ==
    IF k > Cardinality(ChangeIndices) THEN N
    ELSE CHOOSE i \in ChangeIndices : Cardinality({j \in ChangeIndices : j < i}) = k - 1

\* the Python index that starts the k-th run of equal labels
RunStart(k) == IF k = 1 THEN 0 ELSE RunEnd(k - 1)

\* confs[a] + confs[a+1] + ... + confs[b], added left to right
RECURSIVE FloatSum(_, _, _)
FloatSum(confs, a, b) ==
    IF b = a THEN confs[a] ELSE FloatAdd(FloatSum(confs, a, b - 1), confs[b])

\* C1: for a non-empty sequence of N predictions the interval lengths, each
\* a whole number of windows, sum to exactly N
C1_WindowsSumToN ==
    (Done /\ N > 0) =>
        /\ \A k \in 1..Len(Intervals) :
               (Intervals[k].end_time - Intervals[k].start_time)
                   % stage_interval_seconds = 0
        /\ SumWindows(Intervals, 1) = N

C1_Witness == Done /\ N >= 3 /\ Len(Intervals) >= 2

\* C2: the intervals tile the prediction span: the first starts at
\* recording_start, each later one starts at the end of the one before it,
\* which is recording_start + i*window_seconds for the index i of the label
\* change, and the last ends at recording_start + N*window_seconds
C2_IntervalsTile ==
    (Done /\ N > 0) =>
        /\ Len(Intervals) = Cardinality(ChangeIndices) + 1
        /\ Intervals[1].start_time = recording_start
        /\ \A k \in 1..Len(Intervals) :
               /\ Intervals[k].start_time < Intervals[k].end_time
               /\ Intervals[k].end_time
                      = recording_start + RunEnd(k) * stage_interval_seconds
               /\ k > 1 => Intervals[k].start_time = Intervals[k - 1].end_time
        /\ Intervals[Len(Intervals)].end_time
               = recording_start + N * stage_interval_seconds

C2_Witness ==
    Done /\ N >= 3 /\ Len(Intervals) >= 3 /\ recording_start > 0

\* C3: the confidence of every interval is the sum of the confidences of
\* the windows of its run of equal labels, divided by their number
C3_ConfidenceIsMean ==
    (Done /\ N > 0) =>
        /\ Len(Intervals) = Cardinality(ChangeIndices) + 1
        /\ \A k \in 1..Len(Intervals) :
               Intervals[k].confidence
                   = FloatDiv(FloatSum(confidence_scores, RunStart(k) + 1, RunEnd(k)),
                              RunEnd(k) - RunStart(k))

C3_Witness ==
    /\ Done
    /\ Len(Intervals) >= 2
    /\ \E k \in 1..Len(Intervals) :
           /\ RunEnd(k) - RunStart(k) >= 2
           /\ \E a, b \in (RunStart(k) + 1)..RunEnd(k) :
                  confidence_scores[a] # confidence_scores[b]
    /\ \E k \in 2..Len(Intervals) : Intervals[k].confidence # One

\* label expansion of an interval list: one label, and the interval's
\* confidence, per window of every interval
Repeat(x, n) == [j \in 1..n |-> x]

RECURSIVE ExpandStages(_, _)
ExpandStages(ivs, k) ==
    IF k > Len(ivs) THEN <<>>
    ELSE Repeat(ivs[k].stage, WindowsOf(ivs[k])) \o ExpandStages(ivs, k + 1)

RECURSIVE ExpandConfidences(_, _)
ExpandConfidences(ivs, k) ==
    IF k > Len(ivs) THEN <<>>
    ELSE Repeat(ivs[k].confidence, WindowsOf(ivs[k])) \o ExpandConfidences(ivs, k + 1)

\* the interval list aggregated again from its own expansion
ReAggregated ==
    CreateStageIntervals(recording_start, ExpandStages(Intervals, 1),
                         ExpandConfidences(Intervals, 1))

\* C4 as stated: expanding the interval list to one label and confidence
\* per window and aggregating again gives the identical interval list
C4_RoundTripIdentical == Done => ReAggregated = Intervals

\* C4 as amended: the round trip reproduces the number of intervals and
\* every label, start_time and end_time, and the confidence of every
\* interval of at most two windows; the confidence of a longer interval is
\* the float mean of copies of itself, which rounding can move
C4_RoundTripStructure ==
    Done =>
        /\ Len(ReAggregated) = Len(Intervals)
        /\ \A k \in 1..Len(Intervals) :
               /\ ReAggregated[k].stage = Intervals[k].stage
               /\ ReAggregated[k].start_time = Intervals[k].start_time
               /\ ReAggregated[k].end_time = Intervals[k].end_time
               /\ WindowsOf(Intervals[k]) <= 2
                      => ReAggregated[k].confidence = Intervals[k].confidence

C4_Witness ==
    /\ Done
    /\ Len(Intervals) >= 2
    /\ \E k \in 1..Len(Intervals) :
           WindowsOf(Intervals[k]) = 2 /\ Intervals[k].confidence # One
    /\ \E k \in 1..Len(Intervals) : WindowsOf(Intervals[k]) >= 3

\* C5 as stated: one window gives exactly one interval, from
\* recording_start to recording_end
C5_SingleWindowSpansRecording ==
    (Done /\ N = 1) =>
        /\ Len(Intervals) = 1
        /\ Intervals[1].start_time = recording_start
        /\ Intervals[1].end_time = recording_end

\* C5 as amended: one window gives exactly one interval, from
\* recording_start to recording_start + window_seconds, whatever
\* recording_end is
C5_SingleWindowOneInterval ==
    (Done /\ N = 1) =>
        /\ Len(Intervals) = 1
        /\ Intervals[1].start_time = recording_start
        /\ Intervals[1].end_time = recording_start + stage_interval_seconds
        /\ Intervals[1].stage = predictions[1]
        /\ Intervals[1].confidence = confidence_scores[1]

C5_Witness ==
    /\ Done
    /\ N = 1
    /\ recording_end # recording_start + stage_interval_seconds
    /\ Len(Intervals) = 1

\* (recording_end - recording_start) in whole minutes
TotalRecordingMinutes == (recording_end - recording_start) \div 60

PerLabelMinutes ==
    Stats.wake_time + Stats.n1_time + Stats.n2_time + Stats.n3_time + Stats.rem_time

\* the recording is exactly as long as the predicted windows
RecordingSpansWindows ==
    recording_end = recording_start + N * stage_interval_seconds

\* C6: the per-label minutes add up to total_recording_minutes, up to
\* rounding (one minute); taken here on the analyses kindest to it, a
\* non-empty prediction sequence whose windows exactly fill the recording
C6_LabelMinutesSumToRecording ==
    (Done /\ N > 0 /\ RecordingSpansWindows) =>
        /\ PerLabelMinutes - TotalRecordingMinutes <= 1
        /\ TotalRecordingMinutes - PerLabelMinutes <= 1

\* C7: total_sleep_time is total_recording_minutes minus the Wake minutes;
\* taken here on a non-empty prediction sequence whose windows exactly fill
\* the recording
C7_SleepIsRecordingMinusWake ==
    (Done /\ N > 0 /\ RecordingSpansWindows) => Stats.total_sleep_time = TotalRecordingMinutes - Stats.wake_time

\* C8: sleep_efficiency (in thousandths) lies in [0,1] and is 0 when
\* total_recording_minutes is 0, whenever recording_start <= recording_end
C8_EfficiencyInUnitInterval ==
    (Done /\ recording_start <= recording_end) =>
        /\ Stats.sleep_efficiency >= 0
        /\ Stats.sleep_efficiency <= 1000
        /\ TotalRecordingMinutes = 0 => Stats.sleep_efficiency = 0

\* positions of the non-Wake intervals in the interval list
NonWake == {k \in 1..Len(Intervals) : Intervals[k].stage # "Wake"}

FirstNonWake == CHOOSE k \in NonWake : \A j \in NonWake : k <= j

\* C9: sleep_onset_latency is the whole minutes from recording_start to the
\* start_time of the first non-Wake interval, and 0 when the first interval
\* is non-Wake
C9_OnsetLatency ==
    Done =>
        /\ NonWake # {} =>
               Stats.sleep_onset_latency
                   = (Intervals[FirstNonWake].start_time - recording_start) \div 60
        /\ (Len(Intervals) > 0 /\ Intervals[1].stage # "Wake") =>
               Stats.sleep_onset_latency = 0

C9_Witness ==
    Done /\ NonWake # {} /\ FirstNonWake > 1 /\ Stats.sleep_onset_latency > 0

\* whole minutes of the intervals at the positions in S, added up
RECURSIVE MinutesOf(_)
MinutesOf(S) ==
    IF S = {} THEN 0
    ELSE LET k == CHOOSE x \in S : TRUE
         IN  ((Intervals[k].end_time - Intervals[k].start_time) \div 60)
                 + MinutesOf(S \ {k})

\* C10: wake_after_sleep_onset is the sum of the durations, each in whole
\* minutes, of exactly the Wake intervals after the first non-Wake interval;
\* Wake intervals before it add nothing, and it is 0 when there is no
\* non-Wake interval
C10_WakeAfterSleepOnset ==
    Done =>
        Stats.wake_after_sleep_onset =
            IF NonWake = {} THEN 0
            ELSE MinutesOf({k \in 1..Len(Intervals) :
                               Intervals[k].stage = "Wake" /\ k > FirstNonWake})

C10_Witness ==
    /\ Done
    /\ NonWake # {}
    /\ Stats.wake_after_sleep_onset > 0
    /\ Intervals[1].stage = "Wake"
    /\ Stats.wake_time > Stats.wake_after_sleep_onset

\* the scenario of 120 windows, 20 Wake then 100 N2, over 60 minutes
IsScenario ==
    /\ N = 120
    /\ \A i \in 1..N : predictions[i] = (IF i <= 20 THEN "Wake" ELSE "N2")
    /\ \A i \in 1..N :
           confidence_scores[i]
               = (IF i <= 20 THEN FloatLiteral(9, 10) ELSE FloatLiteral(8, 10))
    /\ recording_end - recording_start = 60 * 60

\* C11: the scenario yields exactly two intervals, Wake of 10 minutes then
\* N2 of 50 minutes, with total_sleep_time 50, sleep_efficiency 0.833 and
\* sleep_onset_latency 10
C11_Scenario ==
    (Done /\ IsScenario) =>
        /\ Len(Intervals) = 2
        /\ Intervals[1].stage = "Wake"
        /\ Intervals[1].start_time = recording_start
        /\ Intervals[1].end_time - Intervals[1].start_time = 10 * 60
        /\ Intervals[2].stage = "N2"
        /\ Intervals[2].start_time = Intervals[1].end_time
        /\ Intervals[2].end_time - Intervals[2].start_time = 50 * 60
        /\ Stats.total_sleep_time = 50
        /\ Stats.sleep_efficiency = 833
        /\ Stats.sleep_onset_latency = 10

C11_Witness == Done /\ IsScenario /\ Len(Intervals) > 0


Failed == pc = "failed"

Samples == response.stage_probabilities

\* the per-window lists of the prediction do not all have the same length
Misaligned ==
    \/ Len(confidence_scores) # N
    \/ Len(probabilities) # N

\* C12: misaligned per-window inputs (of at least one label) make the
\* aggregation fail, and nothing is returned from them
C12_MisalignedFails ==
    (Misaligned /\ N > 0 /\ pc # "predicted") =>
        /\ Failed
        /\ response = NoResponse

\* C13: one probability sample per probability vector (so one per window of
\* an aligned prediction); sample i is stamped recording_start + (i-1) windows
\* and carries the first five vector entries as wake, n1, n2, n3, rem, with
\* 0.0 for a class past the end of the vector
C13_OneSamplePerWindow ==
    Done =>
        /\ Len(Samples) = Len(probabilities)
        /\ (~Misaligned => Len(Samples) = N)
        /\ \A i \in 1..Len(Samples) :
               LET v == probabilities[i]
                   p == [j \in 1..5 |-> IF j \in DOMAIN v THEN v[j] ELSE 0]
               IN  /\ Samples[i].timestamp
                          = recording_start + (i - 1) * stage_interval_seconds
                   /\ <<Samples[i].wake, Samples[i].n1, Samples[i].n2,
                         Samples[i].n3, Samples[i].rem>> = p

\* two samples from four-class vectors whose entries are not all equal
C13_Witness ==
    /\ Done
    /\ Len(Samples) = 2
    /\ Len(probabilities[2]) = 4
    /\ Samples[2].wake # Samples[2].n1
    /\ Samples[2].n3 # 0
    /\ Samples[2].rem = 0

Validated == validation.status # "pending"

Scored == quality_report.status # "pending"

\* C14: with an empty accelerometer or audio stream the validation returns
\* is_valid = false with a non-empty error list that names only the missing
\* streams, no flag of a time, range or quality check being set
C14_EmptyStreamInvalid ==
    (Validated /\ (accelerometer_data = <<>> \/ audio_data = <<>>)) =>
        /\ validation.status = "returned"
        /\ validation.value.is_valid = FALSE
        /\ validation.value.validation_errors # <<>>
        /\ \A i \in DOMAIN validation.value.validation_errors :
               validation.value.validation_errors[i]
                   \in {"no_accelerometer_data", "no_audio_data"}
        /\ ~validation.value.has_time_gaps
        /\ ~validation.value.irregular_sampling
        /\ ~validation.value.sensor_saturation
        /\ ~validation.value.excessive_noise

\* one stream is missing while the other would fail a range check
C14_Witness ==
    /\ Validated
    /\ accelerometer_data = <<>>
    /\ audio_data # <<>>
    /\ \E i \in DOMAIN audio_data : audio_data[i].amplitude >= AudioSaturated
    /\ validation.value.validation_errors = <<"no_accelerometer_data">>

\* C15: for two non-empty streams the validation returns is_valid = true, no
\* errors and all four flags false, whatever its checks found
C15_NonEmptyPassesThrough ==
    (Validated /\ accelerometer_data # <<>> /\ audio_data # <<>>) =>
        /\ validation.status = "returned"
        /\ validation.value.is_valid = TRUE
        /\ validation.value.validation_errors = <<>>
        /\ ~validation.value.has_time_gaps
        /\ ~validation.value.irregular_sampling
        /\ ~validation.value.sensor_saturation
        /\ ~validation.value.excessive_noise

\* the checks found a gap, a saturated sensor and noise, and the result is valid
C15_Witness ==
    /\ Validated
    /\ accelerometer_data # <<>>
    /\ audio_data # <<>>
    /\ ValidateTimeConsistency(accelerometer_data, audio_data).errors # <<>>
    /\ ValidateSensorRanges(accelerometer_data, audio_data).saturation
    /\ validation.value.is_valid

\* the noise check of the validation ran and found noise, and the result is valid
C15_WitnessNoise ==
    /\ Validated
    /\ Len(accelerometer_data) > NoiseCheckSamples
    /\ ValidateDataQuality(accelerometer_data, audio_data).excessive_noise
    /\ validation.value.is_valid

IsScore(v) == v \in 0..1000

\* C16: check_data_quality returns a report for every pair of streams
C16_ScorerNeverRaises ==
    Scored =>
        /\ quality_report.status = "returned"
        /\ quality_report.value.overall_score \in Int
        /\ quality_report.value.accelerometer_quality.overall_score \in Int
        /\ quality_report.value.audio_quality.overall_score \in Int
        /\ quality_report.value.recommendations # <<>>

\* the accelerometer stream is empty and the frequency bands of the audio
\* readings have different lengths, so that a sub-metric fails
C16_Witness ==
    /\ Scored
    /\ accelerometer_data = <<>>
    /\ \E i \in DOMAIN audio_data :
           Len(audio_data[i].frequency_bands) # Len(audio_data[1].frequency_bands)
    /\ quality_report.status = "returned"
    /\ quality_report.value.audio_quality.frequency_quality = 0

\* a single accelerometer reading: the missing-data ratio divides by zero
C16_WitnessDivision ==
    /\ Scored
    /\ Len(accelerometer_data) = 1
    /\ audio_data # <<>>
    /\ quality_report.status = "returned"
    /\ quality_report.value.missing_data_percentage = 0

AmplitudesInRange ==
    \A i \in DOMAIN audio_data : audio_data[i].amplitude \in 0..1000

\* C17: for non-empty streams with amplitudes in [0,1] every sub-metric
\* score, both per-stream overall scores and the overall score lie in [0,1]
C17_ScoresInUnitInterval ==
    (/\ quality_report.status = "returned"
     /\ accelerometer_data # <<>>
     /\ audio_data # <<>>
     /\ AmplitudesInRange) =>
        LET accel_quality == quality_report.value.accelerometer_quality
            audio_quality == quality_report.value.audio_quality
        IN  /\ \A key \in DOMAIN accel_quality \ {"error"} : IsScore(accel_quality[key])
            /\ \A key \in DOMAIN audio_quality \ {"error"} : IsScore(audio_quality[key])
            /\ IsScore(quality_report.value.overall_score)

AccelExtracted == accel_task.status = "returned"

Fused == processed.value.accelerometer_features

\* the accelerometer reading with the k-th smallest timestamp (the streams
\* of InitExtract carry the timestamps 0 .. n-1)
KthReading(k) ==
    CHOOSE r \in {accelerometer_data[i] : i \in DOMAIN accelerometer_data} :
        r.timestamp = k - 1

\* the window_samples consecutive readings, in time order, from `start` on
ConsecutiveReadings(start) ==
    [j \in 1..WindowSamples(window_size) |-> KthReading(start + j)]

\* the mean of one axis over those readings, in hundredths
WindowMean(start, axis) ==
    Hundredths(SumSeq([j \in 1..WindowSamples(window_size) |->
                          KthReading(start + j)[axis]]),
               WindowSamples(window_size))

\* C18 as stated: a non-empty stream of n readings yields exactly
\* floor((n - window_samples) / step) + 1 windows
C18_WindowCountFormula ==
    (AccelExtracted /\ accelerometer_data # <<>>) =>
        Len(accel_task.value)
            = ((Len(accelerometer_data) - WindowSamples(window_size))
                  \div StepSize(window_size, overlap)) + 1

\* C18: a non-empty stream of n >= window_samples readings yields exactly
\* floor((n - window_samples) / step) + 1 windows and a shorter one yields
\* none; window k holds the window_samples consecutive readings of the
\* time-sorted stream that start at k * step
C18_WindowsOfFullLength ==
    (AccelExtracted /\ accelerometer_data # <<>>) =>
        LET n == Len(accelerometer_data)
            window_samples == WindowSamples(window_size)
            step == StepSize(window_size, overlap)
        IN  /\ Len(accel_task.value)
                   = (IF n >= window_samples THEN ((n - window_samples) \div step) + 1 ELSE 0)
            /\ \A k \in DOMAIN accel_task.value :
                   /\ (k - 1) * step + window_samples <= n
                   /\ accel_task.value[k]
                          = FeaturesOfColumns(ConsecutiveReadings((k - 1) * step), AccelColumns)

\* overlapping windows over readings that arrived in reverse order, the
\* last readings not filling a window
C18_Witness ==
    /\ AccelExtracted
    /\ overlap = 2
    /\ Len(accel_task.value) >= 2
    /\ accelerometer_data[1].timestamp > accelerometer_data[2].timestamp
    /\ (Len(accelerometer_data) - WindowSamples(window_size))
           % StepSize(window_size, overlap) # 0

\* C19: the fusion emits one vector of six entries per accelerometer
\* window, the first three being the window's means of x, y and z
C19_FusedMeans ==
    processed.status = "returned" =>
        /\ accel_task.status = "returned"
        /\ Len(Fused) = Len(accel_task.value)
        /\ \A k \in DOMAIN Fused :
               LET start == (k - 1) * StepSize(window_size, overlap)
               IN  /\ Len(Fused[k]) = 6
                   /\ Fused[k][1] = WindowMean(start, "x")
                   /\ Fused[k][2] = WindowMean(start, "y")
                   /\ Fused[k][3] = WindowMean(start, "z")

\* C20: when the extraction of exactly one stream fails, process_sensor_data
\* still returns feature vectors
C20_OneFailureIsolated ==
    (/\ processed.status # "pending"
     /\ accelerometer_data # <<>>
     /\ audio_data # <<>>
     /\ accel_task.status = "returned"
     /\ audio_task.status = "raised") =>
        processed.status = "returned"

\* ----------------------------------------------------------------------
\* Run-length encoding and the split of the Wake minutes
\* ----------------------------------------------------------------------
\* C27: the interval list is a minimal run-length encoding: no two
\* adjacent intervals carry the same label, their number is one plus the
\* number of positions where the label differs from the one before, and an
\* empty prediction sequence yields an empty interval list
C27_MinimalRunLengthEncoding ==
    Done =>
        /\ N = 0 => Intervals = <<>>
        /\ N > 0 => Len(Intervals) = Cardinality(ChangeIndices) + 1
        /\ \A k \in 1..(Len(Intervals) - 1) : Intervals[k].stage # Intervals[k + 1].stage

C27_Witness ==
    /\ Done
    /\ N >= 4
    /\ Len(Intervals) >= 2
    /\ Len(Intervals) < N
    /\ \E k \in 2..Len(Intervals) : WindowsOf(Intervals[k]) >= 2

C27_WitnessEmpty == Done /\ N = 0 /\ Intervals = <<>>

\* the intervals of the response that are Wake
WakeIntervals == {k \in 1..Len(Intervals) : Intervals[k].stage = "Wake"}

\* C28: with at least one non-Wake interval the Wake minutes split exactly
\* into the sleep onset latency and the wake after sleep onset; when every
\* interval is Wake, sleep_onset_latency, wake_after_sleep_onset and
\* total_sleep_time are all 0
C28_WakeTimeSplits ==
    Done =>
        /\ NonWake # {} =>
               Stats.wake_time = Stats.sleep_onset_latency + Stats.wake_after_sleep_onset
        /\ NonWake = {} =>
               /\ Stats.sleep_onset_latency = 0
               /\ Stats.wake_after_sleep_onset = 0
               /\ Stats.total_sleep_time = 0

C28_Witness ==
    /\ Done
    /\ NonWake # {}
    /\ Intervals[1].stage = "Wake"
    /\ Stats.sleep_onset_latency > 0
    /\ Stats.wake_after_sleep_onset > 0
    /\ Cardinality(WakeIntervals) >= 2

C28_WitnessAllWake == Done /\ N >= 2 /\ NonWake = {} /\ Stats.wake_time > 0

\* ----------------------------------------------------------------------
\* What the quality scorer reports after a failure
\* ----------------------------------------------------------------------
\* the except block of check_data_quality built the report
TopLevelCaught ==
    Scored /\ quality_report.value.recommendations = DefaultReport.recommendations

HasError(quality) == "error" \in DOMAIN quality

\* C23: a failure caught by the quality scorer, inside the assessment of one
\* stream (an empty stream) or in the top-level routine, is reported as a
\* score of 0.0 with an error annotation
C23_FailureDegradesToZero ==
    Scored =>
        /\ (~TopLevelCaught /\ accelerometer_data = <<>>) =>
               /\ quality_report.value.accelerometer_quality.overall_score = 0
               /\ HasError(quality_report.value.accelerometer_quality)
        /\ (~TopLevelCaught /\ audio_data = <<>>) =>
               /\ quality_report.value.audio_quality.overall_score = 0
               /\ HasError(quality_report.value.audio_quality)
        /\ TopLevelCaught =>
               /\ quality_report.value.overall_score = 0
               /\ quality_report.value.accelerometer_quality.overall_score = 0
               /\ quality_report.value.audio_quality.overall_score = 0
               /\ HasError(quality_report.value.accelerometer_quality)
               /\ HasError(quality_report.value.audio_quality)

\* the part of C23 that the code keeps: the assessment of an empty stream
\* reports 0.0 with an error annotation
C23_EmptyStreamDegradesToZero ==
    (Scored /\ ~TopLevelCaught) =>
        /\ accelerometer_data = <<>> =>
               /\ quality_report.value.accelerometer_quality.overall_score = 0
               /\ HasError(quality_report.value.accelerometer_quality)
        /\ audio_data = <<>> =>
               /\ quality_report.value.audio_quality.overall_score = 0
               /\ HasError(quality_report.value.audio_quality)

\* ----------------------------------------------------------------------
\* The recommendations of a report
\* ----------------------------------------------------------------------
Recommendations == quality_report.value.recommendations

\* the messages of the threshold checks, in the order of the checks
CheckOrder ==
    <<"overall_low", "missing_data", "outliers", "noise", "accel_irregular",
      "accel_saturation", "audio_level", "audio_saturation">>

\* a sub-score that the report carries is below its limit
SubScoreBelow(quality, key, limit) == key \in DOMAIN quality /\ quality[key] < limit

\* the threshold of a message is breached by the values of the report
Breached(message) ==
    LET report == quality_report.value
    IN  CASE message = "overall_low" -> report.overall_score < 700
          [] message = "missing_data" -> report.missing_data_percentage > 50
          [] message = "outliers" -> report.outlier_percentage > 100
          [] message = "noise" -> report.noise_level > 700
          [] message = "accel_irregular" ->
                 SubScoreBelow(report.accelerometer_quality, "time_consistency", 800)
          [] message = "accel_saturation" ->
                 SubScoreBelow(report.accelerometer_quality, "no_saturation", 800)
          [] message = "audio_level" ->
                 SubScoreBelow(report.audio_quality, "signal_level", 700)
          [] message = "audio_saturation" ->
                 SubScoreBelow(report.audio_quality, "no_saturation", 800)

\* the list holds the messages of the breached thresholds in the order of
\* the checks, or the default message alone when nothing is breached
RecommendationsFollowBreaches ==
    /\ Recommendations # <<>>
    /\ \A i \in DOMAIN Recommendations :
           \/ Recommendations = <<"quality_good">>
           \/ \E r \in DOMAIN CheckOrder : Recommendations[i] = CheckOrder[r]
    /\ \A i, j \in DOMAIN Recommendations :
           i < j => \E r, q \in DOMAIN CheckOrder :
                        /\ r < q
                        /\ Recommendations[i] = CheckOrder[r]
                        /\ Recommendations[j] = CheckOrder[q]
    /\ \A r \in DOMAIN CheckOrder :
           Breached(CheckOrder[r])
               <=> \E i \in DOMAIN Recommendations : Recommendations[i] = CheckOrder[r]
    /\ (\E i \in DOMAIN Recommendations : Recommendations[i] = "quality_good")
           <=> \A r \in DOMAIN CheckOrder : ~Breached(CheckOrder[r])

\* C24: the recommendations of every report are non-empty, ordered by the
\* order of the checks, and contain the default message exactly when no
\* threshold is breached
C24_RecommendationsOfEveryReport == Scored => RecommendationsFollowBreaches

\* C24 as the code keeps it: the report of a completed scoring follows the
\* breaches, the report of the except block carries one generic note
C24_RecommendationsOfCompletedScoring ==
    Scored =>
        /\ ~TopLevelCaught => RecommendationsFollowBreaches
        /\ TopLevelCaught => Recommendations = <<"evaluation_error">>

\* several thresholds are breached, the first and the last check among them
C24_Witness ==
    /\ Scored
    /\ ~TopLevelCaught
    /\ Len(Recommendations) >= 3
    /\ Recommendations[1] = "overall_low"
    /\ Recommendations[Len(Recommendations)] = "audio_saturation"

\* nothing is breached
C24_WitnessDefault == Scored /\ Recommendations = <<"quality_good">>

\* an empty stream: its sub-scores are absent and breach nothing
C24_WitnessAbsent ==
    /\ Scored
    /\ ~TopLevelCaught
    /\ accelerometer_data = <<>>
    /\ audio_data # <<>>

\* ----------------------------------------------------------------------
\* The model service
\* ----------------------------------------------------------------------
Predicted == last_call.op = "predict_sleep_stages"

\* the model gave labels, and its probability call gave one value per window
\* or raised
FellBack == Predicted /\ last_call.probability_call \in {"labels", "raises"}

\* C21: when the model yields labels but no per-class probabilities, or its
\* probability call fails, the prediction returns: every window has a vector
\* of 5 entries with 1.0 at its predicted class and 0.0 elsewhere, there are
\* as many vectors as labels, and every confidence is 1.0
C21_FallbackProbabilities ==
    FellBack =>
        /\ prediction.status = "returned"
        /\ LET result == prediction.value
           IN  /\ Len(result.probabilities) = Len(result.predictions)
               /\ Len(result.confidence_scores) = Len(result.predictions)
               /\ \A i \in DOMAIN result.predictions :
                      /\ Len(result.probabilities[i]) = 5
                      /\ \A j \in 1..5 :
                             result.probabilities[i][j]
                                 = (IF class_names[j] = result.predictions[i] THEN One ELSE 0)
                      /\ result.confidence_scores[i] = One

\* predict_proba of the loaded model raised, for two windows of two stages
C21_Witness ==
    /\ FellBack
    /\ sleep_stage_model.has_predict_proba
    /\ last_call.probability_call = "raises"
    /\ prediction.status = "returned"
    /\ Len(prediction.value.predictions) = 2
    /\ prediction.value.predictions[1] # prediction.value.predictions[2]

\* the model has no predict_proba and its predict gave one value per window
C21_WitnessLabels ==
    /\ FellBack
    /\ ~sleep_stage_model.has_predict_proba
    /\ last_call.probability_call = "labels"
    /\ prediction.status = "returned"
    /\ prediction.value.predictions = <<"REM">>

\* what a call may do to is_ready, and what a prediction does without it
ReadinessStep ==
    /\ (~is_ready /\ is_ready') =>
           (last_call'.op = "load_models" /\ last_call'.status = "returned")
    /\ last_call'.op = "cleanup" => ~is_ready'
    /\ (last_call'.op = "load_models" /\ last_call'.status = "raised") => ~is_ready'
    /\ (last_call'.op = "load_models" /\ last_call'.status = "returned") => is_ready'
    /\ (last_call'.op = "predict_sleep_stages" /\ ~is_ready) =>
           /\ prediction'.status = "raised"
           /\ model_calls' = 0
           /\ ~is_ready'

\* C30: over any sequence of load_models, predict_sleep_stages and cleanup,
\* is_ready becomes true only by a load_models that returns, is false after
\* every cleanup and after every load_models that raises, and
\* predict_sleep_stages raises without calling the model when it is false
C30_ReadyOnlyWhileLoaded == [][ReadinessStep]_vars

\* a load failed after the model object was read, and the prediction that
\* followed was refused
C30_Witness ==
    /\ Predicted
    /\ ~is_ready
    /\ sleep_stage_model.loaded
    /\ prediction.status = "raised"
    /\ model_calls = 0

\* a prediction was made on a loaded service
C30_WitnessReady == Predicted /\ is_ready /\ prediction.status = "returned" /\ model_calls = 2

\* ----------------------------------------------------------------------
\* The pipeline of one request
\* ----------------------------------------------------------------------
\* done is the beginning of the steps of the pipeline, in their order
IsPrefix(done, all) == Len(done) <= Len(all) /\ \A i \in DOMAIN done : done[i] = all[i]

TimesDone(step) == Cardinality({i \in DOMAIN steps : steps[i] = step})

\* C22: when the validation returns is_valid = false the request ends with
\* the 422 and no scoring, row, extraction, prediction or aggregation is
\* made for it; otherwise the steps run in the order validate, score,
\* create record, extract, predict, aggregate
C22_ValidationGates ==
    /\ IsPrefix(steps, PipelineSteps)
    /\ (validation.status = "returned" /\ ~validation.value.is_valid) =>
           /\ request = "rejected"
           /\ steps = <<"validate">>
           /\ quality_report = Pending
           /\ ~db.exists
           /\ processed = Pending
           /\ prediction = Pending
           /\ response = NoResponse
           /\ background_tasks = <<>>
    /\ (validation.status = "returned" /\ validation.value.is_valid) =>
           request # "rejected"

\* the audio stream is missing and the request was rejected
C22_Witness ==
    /\ request = "rejected"
    /\ accelerometer_data # <<>>
    /\ audio_data = <<>>
    /\ lookup.status = 404

\* a valid request went through all six steps
C22_WitnessAllSteps == request = "responded" /\ steps = PipelineSteps

\* the request is answered and no task of it is left to run
Quiescent == Answered /\ ~ENABLED UpdateAnalysisResults

\* C25: the prediction is made at most once per analysis: when it fails the
\* request ends with an error, no response is built, the prediction is not
\* attempted again, and the row is marked failed
C25_NoSecondPrediction ==
    /\ TimesDone("predict") <= 1
    /\ prediction.status = "raised" =>
           /\ request = "errored"
           /\ steps[Len(steps)] = "predict"
           /\ model_calls <= 1
           /\ response = NoResponse
           /\ pc # "done"
           /\ (db.exists /\ Quiescent) =>
                  (db.status = "failed" /\ db.error_message # "None")

\* the part of C25 that the code keeps: one prediction at most, and after
\* its failure an error, no response and no further step
C25_FailureSurfaced ==
    /\ TimesDone("predict") <= 1
    /\ prediction.status = "raised" =>
           /\ request = "errored"
           /\ steps[Len(steps)] = "predict"
           /\ model_calls <= 1
           /\ response = NoResponse
           /\ pc # "done"
           /\ background_tasks = <<FailedTask>>

\* extraction, prediction or aggregation is the next step of the request
Computing == request \in {"recorded", "extracted", "predicted"}

\* C26: nothing is written to the database before the aggregation has
\* produced the result: no row exists while extraction, prediction or
\* aggregation has yet to finish
C26_WriteAfterCompute == Computing => ~db.exists

\* the row as it is once the request and its task have run
RecordSettled ==
    (Quiescent /\ db.exists) =>
        /\ db.status # "processing"
        /\ request = "responded" => db.status = "completed"
        /\ request = "errored" => (db.status = "failed" /\ db.error_message # "None")

\* what one step may do to the row, and what a lookup may answer
RecordStep ==
    /\ (~db.exists /\ db'.exists) => db'.status = "processing"
    /\ (db.exists /\ db'.exists /\ db.status \in {"completed", "failed"}) =>
           db'.status # "processing"
    /\ (lookup' # lookup /\ lookup'.status = 200) => (db.exists /\ db.status = "completed")

\* C29: a row starts as "processing"; once the request and its background
\* task have run, a row that was not deleted is "completed" when the
\* aggregation succeeded and "failed" with an error message when a step
\* after its creation raised; it never returns to "processing", and
\* get_analysis_result answers with a result only for a "completed" row
C29_RecordLifecycle == []RecordSettled /\ [][RecordStep]_vars

\* the part of C29 that the code keeps: a new row is "processing", a row
\* does not return to "processing", and only a "completed" row is answered
C29_StatusSteps == [][RecordStep]_vars

\* the row of a request whose aggregation succeeded ends as "completed"
C29_CompletedAfterResponse ==
    (request = "responded" /\ background_tasks = <<>> /\ db.exists) =>
        (db.status = "completed" /\ db.summary_statistics = response.summary_statistics)

====
